---- MODULE Spec2Model ----
(***************************************************************************)
(* A model of the sonitas similarity pipeline: the transformer stages of   *)
(* sonitas/similarity/transform.py, the scorers of                         *)
(* sonitas/similarity/scoring.py, Flow.run of sonitas/similarity/flow.py,  *)
(* the scorer registry of sonitas/similarity/__init__.py and the           *)
(* compare_files command of sonitas/__main__.py.  Stages and scorers are   *)
(* also used on their own, Flow.run is also modelled with the memory of    *)
(* its arrays, run repeatedly on one Flow, and run by concurrent callers.  *)
(*                                                                         *)
(* Signals.  A signal is a numpy array, modelled as a record               *)
(* [dtype, ndim, den, data]: dtype is the array's element type ("uint8",   *)
(* "int16", "float32", "float" for float64, or "complex"), ndim the number *)
(* of its dimensions, and                                                  *)
(* data the sequence of its elements (of its rows, each a sequence, when   *)
(* ndim is 2).  Element i is the number data[i] / den; den is 1 except in  *)
(* the row means that Mixdown computes.  A complex element has imaginary   *)
(* part 0.  The pipelines are run on signals of at most two samples: for   *)
(* those np.std is |x1 - x2| / 2, the z-score of a sample is its sign      *)
(* relative to the other one and the DFT is (x1 + x2, x1 - x2), so every   *)
(* value stays an integer.  The default pipeline of compare_files is also  *)
(* run on signals of 100 samples whose z-scores and whose DFT over 128     *)
(* points are integers.  PadZero, LowPass and the scorers' integer         *)
(* arithmetic are also exercised on longer signals.                        *)
(*                                                                         *)
(* Keep ratios.  A keep ratio is the float nearest to k / KeepDen, held as *)
(* its numerator k.  For the ratios and the lengths of the model the float *)
(* product len(signal) * keep_ratio lies in the same unit interval as the  *)
(* exact (n * k) / KeepDen, so int() of it is the integer quotient.        *)
(*                                                                         *)
(* Recordings and devices.  Recording (sonitas/recorder.py) is modelled    *)
(* with its frames as a sequence of bytes and WAV files as what the wave   *)
(* module writes and reads; PyAudioDeviceManager and PyAudioRecorder       *)
(* (sonitas/pyaudiof) are modelled over a table of backend devices.        *)
(***************************************************************************)
EXTENDS Integers, Sequences, FiniteSets, TLC

(* ------------------------------ bounds --------------------------------- *)

\* longest stage list given to a Flow
MaxSteps == 2
\* denominator of the modelled keep ratios
KeepDen == 10
\* longest signal given to PadZero.transform on its own
MaxPadLen == 5
\* longest signal given to LowPass.transform_unary on its own
MaxLpLen == 10

\* most rows and most columns of the matrices given to Mixdown
MaxRows == 2
MaxCols == 2
\* longest constant signal given to Normalize on its own
MaxConstLen == 3
\* longest signal given to PearsonScoring.compare on its own
MaxPearsonLen == 3
\* most run calls made on one Flow, one after the other
MaxRuns == 2
\* most bytes in the frames of a Recording and in the data chunk of a file
MaxFrameBytes == 8
\* most channels of a Recording that a WAV header can hold
MaxChannels == 2
\* most devices in the table of the audio backend
MaxDevices == 3
\* longest duration given to record, in seconds
MaxDuration == 2

\* sample values of the input signals
SampleVals == {-1, 1}
\* sample values of the signals given to PadZero on its own
PadVals == {0, 1}
\* lengths of the signals that are run through whole pipelines
FlowLens == 0..2

(* ------------------------------ signals -------------------------------- *)

\* a 1-D array of integer-valued elements
Sig(dt, d) == [dtype |-> dt, ndim |-> 1, den |-> 1, data |-> d]

\* the fixed-width integer dtypes of dtype_map in Recording.signal that the
\* model uses (sample_size 1 and 2)
IntDtypes == {"uint8", "int16"}

\* placeholder where a record field holds no signal
NoSignal == Sig("none", <<>>)

SeqsUpTo(vals, n) == UNION {[1..k -> vals] : k \in 0..n}

SeqsOfLens(vals, lens) == UNION {[1..k -> vals] : k \in lens}

\* the integer arrays that Recording.signal yields for a mono recording
IntSignals(vals, lens) == {Sig("int16", d) : d \in SeqsOfLens(vals, lens)}

Abs(x) == IF x < 0 THEN -x ELSE x

Sgn(x) == IF x < 0 THEN -1 ELSE IF x > 0 THEN 1 ELSE 0

Max(x, y) == IF x >= y THEN x ELSE y

RECURSIVE SumSeq(_)
\* the sum of a sequence of numbers, halving it
SumSeq(s) ==
  IF Len(s) = 0 THEN 0
  ELSE IF Len(s) = 1 THEN s[1]
       ELSE SumSeq(SubSeq(s, 1, Len(s) \div 2))
            + SumSeq(SubSeq(s, (Len(s) \div 2) + 1, Len(s)))

Zeros(n) == [i \in 1..n |-> 0]

\* outcome of a stage's transform: the returned pair, or the exception raised
Ok(a, b) == [exc |-> "none", a |-> a, b |-> b]

Raise(e) == [exc |-> e, a |-> NoSignal, b |-> NoSignal]

(* --------------------------- transformer stages ------------------------ *)

\* a stage instance: its class and its construction-time parameter
\* (keep is the LowPass keep ratio's numerator, 0 for the other classes)
Stage(c, k) == [cls |-> c, keep |-> k]

\* dtype of a true division: integers become floats
DivDtype(dt) == IF dt \in IntDtypes THEN "float" ELSE dt

\* an (n, c) array, given as its n rows of c integer-valued elements
Matrix(dt, rows) == [dtype |-> dt, ndim |-> 2, den |-> 1, data |-> rows]

MixdownMutantAxis(signal) ==
  IF signal.ndim <= 1 THEN signal
  ELSE [dtype |-> DivDtype(signal.dtype), ndim |-> 1,
        den |-> Len(signal.data),
        data |-> IF signal.data = <<>> THEN <<>>
                 ELSE [j \in 1..Len(signal.data[1]) |->
                         SumSeq([i \in 1..Len(signal.data) |-> signal.data[i][j]])]]

\* Mixdown.transform_unary: a signal of at most one dimension is returned as
\* is; of a matrix, signal.mean(axis=1): element i is the sum of row i over
\* the number of columns
Mixdown_transform_unary(signal) ==
  IF signal.ndim <= 1 THEN signal
  ELSE [dtype |-> DivDtype(signal.dtype), ndim |-> 1,
        den |-> IF signal.data = <<>> THEN 1 ELSE Len(signal.data[1]),
        data |-> [i \in 1..Len(signal.data) |-> SumSeq(signal.data[i])]]

\* float32 arithmetic on integers: a float32 holds 24 significant bits, and
\* an operation's exact result is rounded to the nearest float32, ties to
\* the even one.  Ulp32(q) is the spacing of the float32 numbers at q >= 0.
RECURSIVE Ulp32(_)
Ulp32(q) == IF q < 2 ^ 24 THEN 1 ELSE 2 * Ulp32(q \div 2)

\* the multiple of u nearest to p / d (p >= 0, d > 0), ties to the even one
RoundEven(p, d, u) ==
  LET lo == (p \div (d * u)) * u
      r == p - lo * d
  IN  IF 2 * r < d * u THEN lo
      ELSE IF 2 * r > d * u THEN lo + u
      ELSE IF (lo \div u) % 2 = 0 THEN lo ELSE lo + u

\* the float32 nearest to the integer q >= 0
Fl32(q) == RoundEven(q, 1, Ulp32(q))

RECURSIVE Sum32(_)
\* np.add.reduce of fewer than eight float32 elements: a float32 accumulator,
\* rounded after every addition
Sum32(d) ==
  IF d = <<>> THEN 0 ELSE Fl32(Sum32(SubSeq(d, 1, Len(d) - 1)) + d[Len(d)])

\* len(signal) times the mean that np.mean and np.std compute.  For the
\* integer dtypes (accumulated as float64) and the float signals of the
\* model the sum and the quotient are exact; a float32 sum is rounded, and
\* so is its quotient by len(signal), which lies where the spacing is 1.
MeanNum(signal) ==
  IF signal.dtype = "float32"
  THEN Len(signal.data) * RoundEven(Sum32(signal.data), Len(signal.data), 1)
  ELSE SumSeq(signal.data)

\* len(signal) times (signal[i] - mean), the deviation that np.std squares
DevNum(signal, i) == Len(signal.data) * signal.data[i] - MeanNum(signal)

\* the root of a perfect square q
ISqrt(q) == CHOOSE r \in 0..q : r * r <= q /\ q < (r + 1) * (r + 1)

\* len(signal) times np.std(signal), the root of the mean of the squared
\* deviations, for the signals of the model: their mean squared deviation
\* is the square of a rational (one or two samples, constant signals, and
\* the pulse signals of the default-pipeline scenario)
StdTimesLen(signal) ==
  LET n == Len(signal.data)
      mean == MeanNum(signal)
  IN  ISqrt(SumSeq([i \in 1..n |-> (n * signal.data[i] - mean) * (n * signal.data[i] - mean)])
              \div n)

\* Normalize.transform_unary with the default eps = 1e-10.  np.std of an
\* empty array is NaN, and NaN < eps is false: the division then yields an
\* empty array.  len(signal) * eps lies strictly between 0 and 1, so
\* std < eps is StdTimesLen < 1.  (signal - mean) / std is the quotient of
\* a deviation by the std, an integer for the signals of the model.
Normalize_transform_unary(signal) ==
  LET n == Len(signal.data)
      mean == MeanNum(signal)
      std == StdTimesLen(signal)
  IN  IF n = 0 THEN Sig(DivDtype(signal.dtype), <<>>)
      ELSE IF std < 1
           THEN Sig(signal.dtype, [i \in 1..n |-> signal.data[i] * 0])
           ELSE Sig(DivDtype(signal.dtype),
                    [i \in 1..n |->
                       Sgn(n * signal.data[i] - mean)
                         * (Abs(n * signal.data[i] - mean) \div std)])

\* the numpy operations that Normalize.transform_unary evaluates, in order:
\* the division is on the path taken when std < eps is false
Normalize_ops(signal) ==
  <<"std">> \o (IF Len(signal.data) > 0 /\ StdTimesLen(signal) < 1
                THEN <<"mul">>
                ELSE <<"mean", "sub", "div">>)

LowPassMutantCtor(keep_ratio) ==
  IF 0 <= keep_ratio /\ keep_ratio < KeepDen
  THEN [exc |-> "none", obj |-> Stage("LowPass", keep_ratio)]
  ELSE [exc |-> "ValueError", obj |-> Stage("none", 0)]

\* LowPass.__init__: the instance, or the ValueError it raises
LowPass_init(keep_ratio) ==
  IF ~(0 <= keep_ratio /\ keep_ratio <= KeepDen)
  THEN [exc |-> "ValueError", obj |-> Stage("none", 0)]
  ELSE [exc |-> "none", obj |-> Stage("LowPass", keep_ratio)]

LowPassMutantCutoff(n, keep_ratio) == (n * keep_ratio) \div KeepDen

LowPassMutantNoLength(n, keep_ratio) ==
  LET cutoff == keep_ratio \div KeepDen
  IN  IF cutoff = 0 /\ keep_ratio > 0 /\ n > 0 THEN 1 ELSE cutoff

\* the cutoff of LowPass.transform_unary for a signal of n elements
LowPass_cutoff(n, keep_ratio) ==
  LET cutoff == (n * keep_ratio) \div KeepDen
  IN  IF cutoff = 0 /\ keep_ratio > 0 /\ n > 0 THEN 1 ELSE cutoff

\* LowPass.transform_unary: signal[:cutoff]
LowPass_transform_unary(keep_ratio, signal) ==
  Sig(signal.dtype,
      SubSeq(signal.data, 1, LowPass_cutoff(Len(signal.data), keep_ratio)))

\* Magnitude.transform_unary: np.abs, which turns complex into float
Magnitude_transform_unary(signal) ==
  Sig(IF signal.dtype = "complex" THEN "float" ELSE signal.dtype,
      [i \in 1..Len(signal.data) |-> Abs(signal.data[i])])

\* numpy.fft.fft rejects an empty array
FFT_defined(signal) == Len(signal.data) > 0

\* cos(pi * k / 2)
Cos4(k) == CASE k % 4 = 0 -> 1 [] k % 4 = 2 -> 0 - 1 [] OTHER -> 0

\* the signals of more than two samples whose DFT the model computes: n is
\* a multiple of 4, the samples are zero except at 0, n/4, n/2 and 3n/4,
\* and those at n/4 and 3n/4 are equal
FFT_sparse(signal) ==
  LET n == Len(signal.data)
  IN  /\ n >= 4 /\ n % 4 = 0
      /\ \A i \in 1..n : (i - 1) % (n \div 4) # 0 => signal.data[i] = 0
      /\ signal.data[(n \div 4) + 1] = signal.data[3 * (n \div 4) + 1]

\* FFT.transform_unary.  Of one sample the DFT is the sample; of two, their
\* sum and difference; of a sparse signal x, bin k is
\* x[0] + x[n/2] * (-1)^k + 2 * x[n/4] * cos(pi * k / 2), a real number.
FFT_transform_unary(signal) ==
  LET n == Len(signal.data)
      x0 == signal.data[1]
      x1 == signal.data[(n \div 4) + 1]
      x2 == signal.data[(n \div 2) + 1]
  IN  Sig("complex",
          IF n = 2
          THEN <<signal.data[1] + signal.data[2], signal.data[1] - signal.data[2]>>
          ELSE IF n >= 4
               THEN [k \in 1..n |-> x0 + x2 * Cos4(2 * (k - 1)) + 2 * x1 * Cos4(k - 1)]
               ELSE signal.data)

RECURSIVE BitAnd(_, _)
\* x & y on non-negative integers
BitAnd(x, y) ==
  IF x = 0 \/ y = 0 THEN 0
  ELSE (x % 2) * (y % 2) + 2 * BitAnd(x \div 2, y \div 2)

RECURSIVE CeilLog2(_)
\* np.ceil(np.log2(n)) for n >= 1
CeilLog2(n) == IF n <= 1 THEN 0 ELSE 1 + CeilLog2((n + 1) \div 2)

PadMutantLength(max_len) == 2 ^ (CeilLog2(max_len) + 1)

\* the common length n that PadZero.transform computes from max_len > 0
PadZero_n(max_len) ==
  IF BitAnd(max_len, max_len - 1) = 0 /\ max_len # 0
  THEN max_len
  ELSE 2 ^ CeilLog2(max_len)

\* np.pad(signal, (0, k), mode='constant', constant_values=0)
NpPad(signal, k) == Sig(signal.dtype, signal.data \o Zeros(k))

PadMutantTransform(signal_a, signal_b) ==
  LET max_len == Max(Len(signal_a.data), Len(signal_b.data))
      n == PadZero_n(max_len)
  IN  IF max_len = 0 THEN Ok(signal_a, signal_b)
      ELSE Ok(NpPad(signal_a, n - Len(signal_a.data)),
              IF Len(signal_b.data) = 0 THEN signal_b
              ELSE NpPad(signal_b, n - Len(signal_b.data)))

\* PadZero.transform
PadZero_transform(signal_a, signal_b) ==
  LET max_len == Max(Len(signal_a.data), Len(signal_b.data))
      n == PadZero_n(max_len)
  IN  IF max_len = 0 THEN Ok(signal_a, signal_b)
      ELSE Ok(NpPad(signal_a, n - Len(signal_a.data)),
              NpPad(signal_b, n - Len(signal_b.data)))

\* transform_unary of a unary-shaped stage
Transform_unary(stage, signal) ==
  CASE stage.cls = "Mixdown" -> Mixdown_transform_unary(signal)
    [] stage.cls = "Normalize" -> Normalize_transform_unary(signal)
    [] stage.cls = "FFT" -> FFT_transform_unary(signal)
    [] stage.cls = "Magnitude" -> Magnitude_transform_unary(signal)
    [] stage.cls = "LowPass" -> LowPass_transform_unary(stage.keep, signal)

\* whether transform_unary returns (it raises ValueError otherwise)
Unary_defined(stage, signal) == stage.cls = "FFT" => FFT_defined(signal)

UnaryMutantSwapped(stage, signal_a, signal_b) ==
  IF Unary_defined(stage, signal_a) /\ Unary_defined(stage, signal_b)
  THEN Ok(Transform_unary(stage, signal_b), Transform_unary(stage, signal_a))
  ELSE Raise("ValueError")

\* UnaryTransform.transform: transform_unary on signal_a, then on signal_b
UnaryTransform_transform(stage, signal_a, signal_b) ==
  IF Unary_defined(stage, signal_a) /\ Unary_defined(stage, signal_b)
  THEN Ok(Transform_unary(stage, signal_a), Transform_unary(stage, signal_b))
  ELSE Raise("ValueError")

\* step.transform(signal_a, signal_b), dispatched on the stage's class
Transform(stage, signal_a, signal_b) ==
  IF stage.cls = "PadZero"
  THEN PadZero_transform(signal_a, signal_b)
  ELSE UnaryTransform_transform(stage, signal_a, signal_b)

(* -------------------------------- scorers ------------------------------ *)

\* A score.  kind "num" is the real number num / sqrt(densq); "nan" is NaN;
\* "ext" is the value that the scipy routine fn returns for (xa, xb);
\* "none" is the absence of a score.
NumScore(n, d2) ==
  [kind |-> "num", num |-> n, densq |-> d2, fn |-> "", xa |-> NoSignal, xb |-> NoSignal]

NanScore ==
  [kind |-> "nan", num |-> 0, densq |-> 1, fn |-> "", xa |-> NoSignal, xb |-> NoSignal]

ExtScore(f, a, b) ==
  [kind |-> "ext", num |-> 0, densq |-> 1, fn |-> f, xa |-> a, xb |-> b]

NoScore ==
  [kind |-> "none", num |-> 0, densq |-> 1, fn |-> "", xa |-> NoSignal, xb |-> NoSignal]

\* outcome of a scorer's compare: the returned score, or the exception raised
Returns(s) == [exc |-> "none", score |-> s]

Raises(e) == [exc |-> e, score |-> NoScore]

\* the dtype of np.dot's result: the common type of the two arrays
DotDtype(da, db) ==
  IF da = db THEN da
  ELSE IF da \in IntDtypes /\ db \in IntDtypes THEN "int16"
       ELSE IF da = "complex" \/ db = "complex" THEN "complex" ELSE "float"

\* an integer held in a fixed-width dtype: numpy's integer arithmetic wraps
\* around silently, modulo 2^8 for uint8 and modulo 2^16 for int16
Wrap(dt, x) ==
  CASE dt = "uint8" -> x % 2 ^ 8
    [] dt = "int16" -> ((x + 2 ^ 15) % 2 ^ 16) - 2 ^ 15
    [] OTHER -> x

\* np.dot(signal_a, signal_b) of two arrays of equal length: products and
\* sum are computed in the result's dtype
Dot(a, b) ==
  Wrap(DotDtype(a.dtype, b.dtype),
       SumSeq([i \in 1..Len(a.data) |-> a.data[i] * b.data[i]]))

\* the square of np.linalg.norm(signal), which converts integers to floats
NormSq(a) == SumSeq([i \in 1..Len(a.data) |-> a.data[i] * a.data[i]])

CosineMutantNoGuard(signal_a, signal_b) ==
  IF Len(signal_a.data) # Len(signal_b.data) THEN Raises("ValueError")
  ELSE IF NormSq(signal_a) * NormSq(signal_b) # 0
       THEN Returns(NumScore(Dot(signal_a, signal_b),
                             NormSq(signal_a) * NormSq(signal_b)))
       ELSE Returns(NanScore)

\* the numpy operations that CosineScoring.compare evaluates, in order: the
\* division is evaluated only if norm is non-zero
CosineScoring_ops(signal_a, signal_b) ==
  IF Len(signal_a.data) # Len(signal_b.data) THEN <<"dot">>
  ELSE <<"dot", "norm", "norm", "mul">>
       \o (IF NormSq(signal_a) * NormSq(signal_b) # 0 THEN <<"div">> ELSE <<>>)

\* CosineScoring.compare: np.dot raises ValueError on unequal lengths
CosineScoring_compare(signal_a, signal_b) ==
  IF Len(signal_a.data) # Len(signal_b.data) THEN Raises("ValueError")
  ELSE IF NormSq(signal_a) * NormSq(signal_b) # 0
       THEN Returns(NumScore(Dot(signal_a, signal_b),
                             NormSq(signal_a) * NormSq(signal_b)))
       ELSE Returns(NumScore(0, 1))

\* np.std(signal) == 0: every deviation from the computed mean is zero;
\* false for an empty array, whose std is NaN
StdIsZero(signal) ==
  /\ Len(signal.data) > 0
  /\ \A i \in 1..Len(signal.data) : DevNum(signal, i) = 0

PearsonMutantEqual(signal_a, signal_b) ==
  IF StdIsZero(signal_a) \/ StdIsZero(signal_b)
  THEN IF StdIsZero(signal_a) /\ StdIsZero(signal_b)
       THEN Returns(NumScore(1, 1))
       ELSE Returns(NumScore(0, 1))
  ELSE IF Len(signal_a.data) = 2 /\ Len(signal_b.data) = 2
            /\ signal_a.dtype # "complex" /\ signal_b.dtype # "complex"
       THEN Returns(NumScore(Sgn(signal_a.data[1] - signal_a.data[2])
                             * Sgn(signal_b.data[1] - signal_b.data[2]), 1))
       ELSE IF Len(signal_a.data) = Len(signal_b.data) /\ Len(signal_a.data) >= 2
            THEN Returns(ExtScore("pearsonr", signal_a, signal_b))
            ELSE Raises("ValueError")

\* the numpy and scipy operations that PearsonScoring.compare evaluates, in
\* order; `or` and `and` evaluate their right operand only if needed
PearsonScoring_ops(signal_a, signal_b) ==
  IF StdIsZero(signal_a) \/ StdIsZero(signal_b)
  THEN (IF StdIsZero(signal_a) THEN <<"std">> ELSE <<"std", "std">>)
       \o <<"array_equal">>
       \o (IF signal_a.data = signal_b.data THEN <<"std">> ELSE <<>>)
  ELSE <<"std", "std", "pearsonr">>

\* PearsonScoring.compare.  pearsonr is reached only with two signals of
\* non-zero (or NaN) std: it raises ValueError unless both have the same
\* length of at least two, and of two real signals of two samples it
\* returns +1 or -1.
PearsonScoring_compare(signal_a, signal_b) ==
  IF StdIsZero(signal_a) \/ StdIsZero(signal_b)
  THEN IF signal_a.data = signal_b.data /\ StdIsZero(signal_a)
       THEN Returns(NumScore(1, 1))
       ELSE Returns(NumScore(0, 1))
  ELSE IF Len(signal_a.data) = 2 /\ Len(signal_b.data) = 2
            /\ signal_a.dtype # "complex" /\ signal_b.dtype # "complex"
       THEN Returns(NumScore(Sgn(signal_a.data[1] - signal_a.data[2])
                             * Sgn(signal_b.data[1] - signal_b.data[2]), 1))
       ELSE IF Len(signal_a.data) = Len(signal_b.data) /\ Len(signal_a.data) >= 2
            THEN Returns(ExtScore("pearsonr", signal_a, signal_b))
            ELSE Raises("ValueError")

\* SpearmanScoring.compare: whatever scipy.stats.spearmanr yields
SpearmanScoring_compare(signal_a, signal_b) ==
  Returns(ExtScore("spearmanr", signal_a, signal_b))

\* KendallTauScoring.compare: whatever scipy.stats.kendalltau yields
KendallTauScoring_compare(signal_a, signal_b) ==
  Returns(ExtScore("kendalltau", signal_a, signal_b))

\* the numpy operations that NCCScoring.compare evaluates, in order: both
\* arguments of np.correlate are evaluated, each with its division by np.std
NCCScoring_ops(signal_a, signal_b) ==
  <<"mean", "std", "div", "mean", "std", "div", "correlate">>
  \o (IF Len(signal_a.data) = 0 \/ Len(signal_b.data) = 0 THEN <<>> ELSE <<"div">>)

\* NCCScoring.compare: np.correlate rejects an empty array; a zero std
\* makes the z-scores NaN, and so the result; of two non-constant signals
\* of two samples the result is +1 or -1
NCCScoring_compare(signal_a, signal_b) ==
  IF Len(signal_a.data) = 0 \/ Len(signal_b.data) = 0 THEN Raises("ValueError")
  ELSE IF StdIsZero(signal_a) \/ StdIsZero(signal_b) THEN Returns(NanScore)
       ELSE IF Len(signal_a.data) = 2 /\ Len(signal_b.data) = 2
            THEN Returns(NumScore(Sgn(signal_a.data[1] - signal_a.data[2])
                                  * Sgn(signal_b.data[1] - signal_b.data[2]), 1))
            ELSE Returns(ExtScore("correlate", signal_a, signal_b))

\* the default scoring key
DEFAULT_SCORING == "cosine"

RegistryWithDuplicate ==
  [k \in {"cosine", "pearson", "spearman", "kendall", "ncc"} |->
     CASE k = "cosine" -> "CosineScoring"
       [] k = "pearson" -> "PearsonScoring"
       [] k = "spearman" -> "SpearmanScoring"
       [] k = "kendall" -> "SpearmanScoring"
       [] k = "ncc" -> "NCCScoring"]

\* the scorer registry: key -> scorer class
SUPPORTED_SCORING ==
  [k \in {"cosine", "pearson", "spearman", "kendall", "ncc"} |->
     CASE k = "cosine" -> "CosineScoring"
       [] k = "pearson" -> "PearsonScoring"
       [] k = "spearman" -> "SpearmanScoring"
       [] k = "kendall" -> "KendallTauScoring"
       [] k = "ncc" -> "NCCScoring"]

\* scorer.compare(signal_a, signal_b), dispatched on the scorer's class
Compare(scorer, signal_a, signal_b) ==
  CASE scorer = "CosineScoring" -> CosineScoring_compare(signal_a, signal_b)
    [] scorer = "PearsonScoring" -> PearsonScoring_compare(signal_a, signal_b)
    [] scorer = "SpearmanScoring" -> SpearmanScoring_compare(signal_a, signal_b)
    [] scorer = "KendallTauScoring" -> KendallTauScoring_compare(signal_a, signal_b)
    [] scorer = "NCCScoring" -> NCCScoring_compare(signal_a, signal_b)

(* --------------------------------- state ------------------------------- *)

VARIABLES
  \* Flow: self.steps and self.scoring ("none" before construction)
  steps, scoring,
  \* Flow.run: the caller's arrays, the locals signal_a and signal_b, the
  \* number of loop iterations done, the position, the returned score and
  \* the exception that left run
  arg_a, arg_b, signal_a, signal_b, idx, pc, result, err,
  \* every transform and compare invoked so far, in order
  calls,
  \* one stage or scorer used on its own: the position, the keep ratio
  \* given to the constructor, the instance (for a scorer, its class in the
  \* cls field), the exception raised, the signals given to
  \* transform and its outcome; for a scorer used on its own, the outcome
  \* of compare; and the numpy and scipy operations that the call evaluated
  u_pc, u_arg, u_stage, u_err, u_a, u_b, u_out, u_score, u_ops,
  \* compare_files: the position, the arguments, the two files, the locals
  \* signal_a, signal_b and transformer_steps, the printed lines, the file
  \* accesses and constructor calls made, and the exception that left it
  cli_pc, cli_args, files, cli_sig_a, cli_sig_b, transformer_steps, out,
  events, cli_err,
  \* memory: the buffers of the arrays allocated so far, the array objects
  \* that the caller passed to run, and the array objects that run's locals
  \* signal_a and signal_b are bound to
  heap, own_a, own_b, ref_a, ref_b,
  \* reuse: the stage list and scorer given to the Flow's constructor, and
  \* the number of run calls that have ended
  cfg, runs,
  \* concurrent run calls on one Flow: per call, the position, the loop
  \* index, the locals signal_a and signal_b, the arguments and the outcome
  t_pc, t_idx, t_a, t_b, t_in, t_out,
  \* a Recording and WAV files: the position, the Recording at hand and how
  \* it came about, the files by path, the Recording loaded back from the
  \* written file, the outcome of signal(), and the exception raised
  w_pc, rec, origin, fs, back, sig_out, w_err,
  \* PyAudio: the backend's device table, the position, the arguments and
  \* the result of PyAudioDeviceManager.list, the device_index given to
  \* PyAudioRecorder and its _device, the exception raised; and of record,
  \* the duration, the chunks read, the backend calls made and the
  \* Recording returned
  pa_table, d_pc, d_flags, d_res, d_index, r_device, d_err,
  rc_duration, rc_chunks, rc_log, rc_out

flowVars ==
  <<steps, scoring, arg_a, arg_b, signal_a, signal_b, idx, pc, result, err, calls>>

unitVars == <<u_pc, u_arg, u_stage, u_err, u_a, u_b, u_out, u_score, u_ops>>

cliVars ==
  <<cli_pc, cli_args, files, cli_sig_a, cli_sig_b, transformer_steps, out,
    events, cli_err>>

heapVars == <<heap, own_a, own_b, ref_a, ref_b>>

reuseVars == <<cfg, runs>>

concVars == <<t_pc, t_idx, t_a, t_b, t_in, t_out>>

wavVars == <<w_pc, rec, origin, fs, back, sig_out, w_err>>

audioVars ==
  <<pa_table, d_pc, d_flags, d_res, d_index, r_device, d_err,
    rc_duration, rc_chunks, rc_log, rc_out>>

vars ==
  <<flowVars, unitVars, cliVars, heapVars, reuseVars, concVars, wavVars, audioVars>>

\* a logged invocation of stage number who (0: the scorer)
Call(op, who, a, b, exc, oa, ob, sc) ==
  [op |-> op, who |-> who, in_a |-> a, in_b |-> b, exc |-> exc,
   out_a |-> oa, out_b |-> ob, score |-> sc]

(* ---------------------------------- Flow ------------------------------- *)

\* the keep ratios of the LowPass stages put into stage lists
FlowKeeps == {0, KeepDen \div 2}

\* stage instances: the parameterless ones and the LowPass instances that
\* their constructor yields
FlowStages ==
  {Stage(c, 0) : c \in {"Mixdown", "Normalize", "PadZero", "FFT", "Magnitude"}}
  \cup {LowPass_init(k).obj : k \in FlowKeeps}

FlowIdle ==
  /\ steps = <<>> /\ scoring = "none"
  /\ arg_a = NoSignal /\ arg_b = NoSignal
  /\ signal_a = NoSignal /\ signal_b = NoSignal
  /\ idx = 0 /\ pc = "new" /\ result = NoScore /\ err = "none"
  /\ calls = <<>>

\* Flow.__init__
Flow_init(st, sc) ==
  /\ pc = "new"
  /\ steps' = st
  /\ scoring' = sc
  /\ pc' = "idle"
  /\ UNCHANGED <<arg_a, arg_b, signal_a, signal_b, idx, result, err, calls>>

\* Flow.run is entered with the caller's two signals
Flow_run(a, b) ==
  /\ pc = "idle"
  /\ arg_a' = a /\ arg_b' = b
  /\ signal_a' = a /\ signal_b' = b
  /\ idx' = 0
  /\ pc' = "loop"
  /\ UNCHANGED <<steps, scoring, result, err, calls>>

StepConsuming ==
  /\ pc = "loop" /\ idx < Len(steps)
  /\ LET r == Transform(steps[idx + 1], signal_a, signal_b)
     IN  /\ r.exc = "none"
         /\ signal_a' = r.a /\ signal_b' = r.b
         /\ calls' = Append(calls, Call("transform", idx + 1, signal_a, signal_b,
                                        "none", r.a, r.b, NoScore))
  /\ steps' = Tail(steps)
  /\ UNCHANGED <<idx, scoring, arg_a, arg_b, pc, result, err>>

StepUnthreaded ==
  /\ pc = "loop" /\ idx < Len(steps)
  /\ LET r == Transform(steps[idx + 1], arg_a, arg_b)
     IN  /\ r.exc = "none"
         /\ signal_a' = r.a /\ signal_b' = r.b
         /\ calls' = Append(calls, Call("transform", idx + 1, arg_a, arg_b,
                                        "none", r.a, r.b, NoScore))
  /\ idx' = idx + 1
  /\ UNCHANGED <<steps, scoring, arg_a, arg_b, pc, result, err>>

\* one iteration of the loop of Flow.run whose step.transform returns
Step ==
  /\ pc = "loop" /\ idx < Len(steps)
  /\ LET r == Transform(steps[idx + 1], signal_a, signal_b)
     IN  /\ r.exc = "none"
         /\ signal_a' = r.a /\ signal_b' = r.b
         /\ calls' = Append(calls, Call("transform", idx + 1, signal_a, signal_b,
                                        "none", r.a, r.b, NoScore))
  /\ idx' = idx + 1
  /\ UNCHANGED <<steps, scoring, arg_a, arg_b, pc, result, err>>

StepSwallow ==
  /\ pc = "loop" /\ idx < Len(steps)
  /\ LET r == Transform(steps[idx + 1], signal_a, signal_b)
     IN  /\ r.exc # "none"
         /\ calls' = Append(calls, Call("transform", idx + 1, signal_a, signal_b,
                                        r.exc, NoSignal, NoSignal, NoScore))
  /\ idx' = idx + 1
  /\ UNCHANGED <<steps, scoring, arg_a, arg_b, signal_a, signal_b, pc, result, err>>

\* one iteration of the loop whose step.transform raises: the exception
\* leaves run
StepRaise ==
  /\ pc = "loop" /\ idx < Len(steps)
  /\ LET r == Transform(steps[idx + 1], signal_a, signal_b)
     IN  /\ r.exc # "none"
         /\ err' = r.exc
         /\ calls' = Append(calls, Call("transform", idx + 1, signal_a, signal_b,
                                        r.exc, NoSignal, NoSignal, NoScore))
  /\ pc' = "raised"
  /\ UNCHANGED <<steps, scoring, arg_a, arg_b, signal_a, signal_b, idx, result>>

ScoreSwapped ==
  /\ pc = "loop" /\ idx = Len(steps)
  /\ LET r == Compare(scoring, signal_b, signal_a)
     IN  /\ r.exc = "none"
         /\ result' = r.score
         /\ calls' = Append(calls, Call("compare", 0, signal_b, signal_a,
                                        "none", NoSignal, NoSignal, r.score))
  /\ pc' = "returned"
  /\ UNCHANGED <<steps, scoring, arg_a, arg_b, signal_a, signal_b, idx, err>>

\* after the loop: self.scoring.compare returns and run returns its value
Score ==
  /\ pc = "loop" /\ idx = Len(steps)
  /\ LET r == Compare(scoring, signal_a, signal_b)
     IN  /\ r.exc = "none"
         /\ result' = r.score
         /\ calls' = Append(calls, Call("compare", 0, signal_a, signal_b,
                                        "none", NoSignal, NoSignal, r.score))
  /\ pc' = "returned"
  /\ UNCHANGED <<steps, scoring, arg_a, arg_b, signal_a, signal_b, idx, err>>

\* after the loop: self.scoring.compare raises and the exception leaves run
ScoreRaise ==
  /\ pc = "loop" /\ idx = Len(steps)
  /\ LET r == Compare(scoring, signal_a, signal_b)
     IN  /\ r.exc # "none"
         /\ err' = r.exc
         /\ calls' = Append(calls, Call("compare", 0, signal_a, signal_b,
                                        r.exc, NoSignal, NoSignal, NoScore))
  /\ pc' = "raised"
  /\ UNCHANGED <<steps, scoring, arg_a, arg_b, signal_a, signal_b, idx, result>>

\* a caller constructs a Flow from a stage list and a scorer instance
NewFlow ==
  /\ pc = "new"
  /\ \E st \in SeqsUpTo(FlowStages, MaxSteps) :
       \E k \in DOMAIN SUPPORTED_SCORING : Flow_init(st, SUPPORTED_SCORING[k])

\* a caller runs the Flow on two signals
CallRun ==
  /\ pc = "idle"
  /\ \E a \in IntSignals(SampleVals, FlowLens) :
       \E b \in IntSignals(SampleVals, FlowLens) : Flow_run(a, b)

(* ----------------------------- a single stage ------------------------- *)

NoStage == Stage("none", 0)

UnitIdle ==
  /\ u_pc = "new" /\ u_arg = 0 /\ u_stage = NoStage /\ u_err = "none"
  /\ u_a = NoSignal /\ u_b = NoSignal /\ u_out = Raise("none")
  /\ u_score = Raises("none") /\ u_ops = <<>>

\* the keep ratios given to the LowPass constructor: from -2 / KeepDen to
\* (KeepDen + 4) / KeepDen, which is 1.4 for KeepDen = 10
LpRatios == (0 - 2)..(KeepDen + 4)

\* LowPass(keep_ratio=r) is evaluated
NewLowPass ==
  /\ u_pc = "new"
  /\ \E r \in LpRatios :
    /\ u_arg' = r
    /\ u_stage' = LowPass_init(r).obj
    /\ u_err' = LowPass_init(r).exc
    /\ u_pc' = IF LowPass_init(r).exc = "none" THEN "built" ELSE "failed"
    /\ UNCHANGED <<u_a, u_b, u_out, u_score, u_ops>>

\* transform_unary of the LowPass instance is called on a signal
CallLowPass ==
  /\ u_pc = "built" /\ u_stage.cls = "LowPass"
  /\ \E signal \in IntSignals(SampleVals, 0..MaxLpLen) :
    /\ u_a' = signal
    /\ u_out' = Ok(LowPass_transform_unary(u_stage.keep, signal), NoSignal)
    /\ u_pc' = "done"
    /\ UNCHANGED <<u_arg, u_stage, u_err, u_b, u_score, u_ops>>

\* PadZero() is evaluated
NewPadZero ==
  /\ u_pc = "new"
  /\ u_stage' = Stage("PadZero", 0)
  /\ u_pc' = "built"
  /\ UNCHANGED <<u_arg, u_err, u_a, u_b, u_out, u_score, u_ops>>

\* transform of the PadZero instance is called on two signals
CallPadZero ==
  /\ u_pc = "built" /\ u_stage.cls = "PadZero"
  /\ \E a \in IntSignals(PadVals, 0..MaxPadLen) :
    \E b \in IntSignals(PadVals, 0..MaxPadLen) :
      /\ u_a' = a /\ u_b' = b
      /\ u_out' = PadZero_transform(a, b)
      /\ u_pc' = "done"
      /\ UNCHANGED <<u_arg, u_stage, u_err, u_score, u_ops>>

(* ----------------------------- a Flow reused -------------------------- *)

RECURSIVE Flow_run_outcome(_, _, _, _)
\* Flow.run as a function of the Flow's stage list and scorer and the two
\* arguments: the score returned, or the exception raised
Flow_run_outcome(st, sc, a, b) ==
  IF st = <<>> THEN Compare(sc, a, b)
  ELSE LET r == Transform(Head(st), a, b)
       IN  IF r.exc # "none" THEN Raises(r.exc)
           ELSE Flow_run_outcome(Tail(st), sc, r.a, r.b)

ReuseIdle == cfg = [steps |-> <<>>, scoring |-> "none"] /\ runs = 0

\* a caller constructs a Flow; cfg records what the constructor was given
ReuseNew ==
  /\ NewFlow
  /\ cfg' = [steps |-> steps', scoring |-> scoring']
  /\ runs' = 0

\* run has returned or raised: its locals are gone, and the caller may call
\* run on the same Flow again
RunAgain ==
  /\ pc \in {"returned", "raised"}
  /\ runs + 1 < MaxRuns
  /\ runs' = runs + 1
  /\ pc' = "idle"
  /\ arg_a' = NoSignal /\ arg_b' = NoSignal
  /\ signal_a' = NoSignal /\ signal_b' = NoSignal
  /\ idx' = 0 /\ result' = NoScore /\ err' = "none" /\ calls' = <<>>
  /\ UNCHANGED <<steps, scoring, cfg>>

(* ------------------------- concurrent run calls ------------------------ *)

\* the concurrent callers of run
Threads == {1, 2}

\* the argument pairs of the concurrent calls
ConcPairs ==
  LET x == Sig("int16", <<0 - 1, 1>>)
      y == Sig("int16", <<1, 1>>)
      e == Sig("int16", <<>>)
  IN  {[a |-> x, b |-> x], [a |-> x, b |-> y], [a |-> y, b |-> x], [a |-> e, b |-> e]}

ConcIdle ==
  /\ t_pc = [t \in Threads |-> "idle"]
  /\ t_idx = [t \in Threads |-> 0]
  /\ t_a = [t \in Threads |-> NoSignal]
  /\ t_b = [t \in Threads |-> NoSignal]
  /\ t_in = [t \in Threads |-> [a |-> NoSignal, b |-> NoSignal]]
  /\ t_out = [t \in Threads |-> Raises("none")]

\* caller t enters run of the shared Flow: signal_a and signal_b are
\* parameters, local to the call
ConcRun(t) ==
  /\ pc = "idle" /\ t_pc[t] = "idle"
  /\ \E p \in ConcPairs :
    /\ t_in' = [t_in EXCEPT ![t] = p]
    /\ t_a' = [t_a EXCEPT ![t] = p.a]
    /\ t_b' = [t_b EXCEPT ![t] = p.b]
    /\ t_idx' = [t_idx EXCEPT ![t] = 0]
    /\ t_pc' = [t_pc EXCEPT ![t] = "loop"]
    /\ UNCHANGED t_out

ConcStepShared(t) ==
  /\ t_pc[t] = "loop" /\ t_idx[t] < Len(steps)
  /\ LET r == Transform(steps[t_idx[t] + 1], t_a[t], t_b[t])
     IN  IF r.exc = "none"
         THEN /\ t_a' = [u \in Threads |-> r.a]
              /\ t_b' = [u \in Threads |-> r.b]
              /\ t_idx' = [t_idx EXCEPT ![t] = t_idx[t] + 1]
              /\ UNCHANGED <<t_pc, t_out>>
         ELSE /\ t_out' = [t_out EXCEPT ![t] = Raises(r.exc)]
              /\ t_pc' = [t_pc EXCEPT ![t] = "raised"]
              /\ UNCHANGED <<t_idx, t_a, t_b>>
  /\ UNCHANGED t_in

\* one loop iteration of caller t's run: step.transform on the call's own
\* locals; an exception leaves the call
ConcStep(t) ==
  /\ t_pc[t] = "loop" /\ t_idx[t] < Len(steps)
  /\ LET r == Transform(steps[t_idx[t] + 1], t_a[t], t_b[t])
     IN  IF r.exc = "none"
         THEN /\ t_a' = [t_a EXCEPT ![t] = r.a]
              /\ t_b' = [t_b EXCEPT ![t] = r.b]
              /\ t_idx' = [t_idx EXCEPT ![t] = t_idx[t] + 1]
              /\ UNCHANGED <<t_pc, t_out>>
         ELSE /\ t_out' = [t_out EXCEPT ![t] = Raises(r.exc)]
              /\ t_pc' = [t_pc EXCEPT ![t] = "raised"]
              /\ UNCHANGED <<t_idx, t_a, t_b>>
  /\ UNCHANGED t_in

\* after the loop of caller t's run: self.scoring.compare on the call's locals
ConcScore(t) ==
  /\ t_pc[t] = "loop" /\ t_idx[t] = Len(steps)
  /\ LET r == Compare(scoring, t_a[t], t_b[t])
     IN  /\ t_out' = [t_out EXCEPT ![t] = r]
         /\ t_pc' = [t_pc EXCEPT ![t] = IF r.exc = "none" THEN "returned" ELSE "raised"]
  /\ UNCHANGED <<t_idx, t_a, t_b, t_in>>

(* ------------------------- Flow.run and memory ------------------------- *)

\* An array object: a view of the first n elements of buffer number buf.
\* np.ndarray objects share a buffer when one is a slice of the other.
Ref(b, n) == [buf |-> b, n |-> n]

NoRef == Ref(0, 0)

\* the array that an array object shows
Contents(mem, ref) ==
  [mem[ref.buf] EXCEPT !.data = SubSeq(mem[ref.buf].data, 1, ref.n)]

HeapIdle ==
  /\ heap = <<>> /\ own_a = NoRef /\ own_b = NoRef
  /\ ref_a = NoRef /\ ref_b = NoRef

\* a fresh array holding signal is allocated
Alloc(mem, signal) == Append(mem, signal)

MemoryMutantInPlace(stage, mem, ra, rb, oa, ob) ==
  CASE stage.cls = "Mixdown" -> [mem |-> mem, a |-> ra, b |-> rb]
    [] stage.cls = "PadZero" /\ ra.n = 0 /\ rb.n = 0 ->
         [mem |-> mem, a |-> ra, b |-> rb]
    [] stage.cls = "LowPass" ->
         [mem |-> mem, a |-> Ref(ra.buf, Len(oa.data)), b |-> Ref(rb.buf, Len(ob.data))]
    [] stage.cls = "Magnitude" ->
         LET wa == [mem EXCEPT ![ra.buf].data =
                      oa.data \o SubSeq(@, ra.n + 1, Len(@))]
             wb == [wa EXCEPT ![rb.buf].data =
                      ob.data \o SubSeq(@, rb.n + 1, Len(@))]
         IN  [mem |-> wb, a |-> ra, b |-> rb]
    [] OTHER ->
         [mem |-> Alloc(Alloc(mem, oa), ob),
          a |-> Ref(Len(mem) + 1, Len(oa.data)),
          b |-> Ref(Len(mem) + 2, Len(ob.data))]

\* What step.transform does to memory when it returns (oa, ob) for the
\* array objects ra and rb: Mixdown returns a 1-D signal itself and PadZero
\* returns two empty signals themselves; LowPass returns slices, which are
\* views of the buffers of its inputs; signal * 0, the division, np.pad,
\* np.abs and fft allocate their results.  No stage writes to a buffer.
StageMemory(stage, mem, ra, rb, oa, ob) ==
  CASE stage.cls = "Mixdown" -> [mem |-> mem, a |-> ra, b |-> rb]
    [] stage.cls = "PadZero" /\ ra.n = 0 /\ rb.n = 0 ->
         [mem |-> mem, a |-> ra, b |-> rb]
    [] stage.cls = "LowPass" ->
         [mem |-> mem, a |-> Ref(ra.buf, Len(oa.data)), b |-> Ref(rb.buf, Len(ob.data))]
    [] OTHER ->
         [mem |-> Alloc(Alloc(mem, oa), ob),
          a |-> Ref(Len(mem) + 1, Len(oa.data)),
          b |-> Ref(Len(mem) + 2, Len(ob.data))]

\* a caller runs the Flow on two arrays it owns; it may pass one array
\* object twice
HeapRun ==
  /\ pc = "idle"
  /\ \E a \in IntSignals(SampleVals, FlowLens) :
       \E b \in IntSignals(SampleVals, FlowLens) :
         \E same \in {a = b, FALSE} :
           /\ Flow_run(a, b)
           /\ heap' = IF same THEN <<a>> ELSE <<a, b>>
           /\ own_a' = Ref(1, Len(a.data))
           /\ own_b' = Ref(IF same THEN 1 ELSE 2, Len(b.data))
           /\ ref_a' = own_a' /\ ref_b' = own_b'

\* one iteration of the loop of Flow.run whose step.transform returns
HeapStep ==
  /\ Step
  /\ LET m == StageMemory(steps[idx + 1], heap, ref_a, ref_b, signal_a', signal_b')
     IN  heap' = m.mem /\ ref_a' = m.a /\ ref_b' = m.b
  /\ UNCHANGED <<own_a, own_b>>

(* ------------------------ a unary stage on its own --------------------- *)

\* instances of the unary-shaped stage classes
UnaryStages ==
  {Stage(c, 0) : c \in {"Mixdown", "Normalize", "FFT", "Magnitude"}}
  \cup {LowPass_init(k).obj : k \in FlowKeeps}

\* sample values of the arrays given to Mixdown and to Normalize
MixVals == {-1, 0, 2}
NormVals == (0 - 2)..2
\* sample values of the float32 signals: integers just below 2^24, where
\* the float32 numbers are still the integers
Float32Vals == {2 ^ 24 - k : k \in 1..4}

\* the constant signals of n samples
Constants(dt, vals, n) == {Sig(dt, [i \in 1..n |-> v]) : v \in vals}

Matrices(dt, vals, n, c) == {Matrix(dt, rows) : rows \in [1..n -> [1..c -> vals]]}

\* the signals given to transform_unary: Mixdown also gets matrices (the
\* signal of a multi-channel recording has one column per channel),
\* Normalize gets integer and float signals of several standard deviations
\* and constant signals, among them float32 ones
UnaryInputs(cls) ==
  CASE cls = "Mixdown" ->
         IntSignals(MixVals, 0..MaxRows)
         \cup UNION {Matrices(dt, MixVals, n, c) :
                       dt \in {"int16", "float"}, n \in 0..MaxRows, c \in 1..MaxCols}
    [] cls = "Normalize" ->
         {Sig(dt, d) : dt \in {"int16", "float"}, d \in SeqsOfLens(NormVals, FlowLens)}
         \cup UNION {Constants("int16", NormVals, n) \cup Constants("float32", Float32Vals, n) :
                       n \in 1..MaxConstLen}
    [] OTHER -> IntSignals(SampleVals, FlowLens)

\* the signals given in pairs to transform
PairInputs(cls) ==
  IntSignals(SampleVals, FlowLens)
  \cup (IF cls = "Mixdown" THEN Matrices("int16", SampleVals, 1, 2) ELSE {})

\* the numpy operations that transform_unary evaluates, in order
Unary_ops(stage, signal) ==
  CASE stage.cls = "Mixdown" -> IF signal.ndim <= 1 THEN <<>> ELSE <<"mean">>
    [] stage.cls = "Normalize" -> Normalize_ops(signal)
    [] stage.cls = "FFT" -> <<"fft">>
    [] stage.cls = "Magnitude" -> <<"abs">>
    [] stage.cls = "LowPass" -> <<"slice">>

\* a unary-shaped stage is constructed
NewUnary ==
  /\ u_pc = "new"
  /\ \E st \in UnaryStages :
    /\ u_stage' = st
    /\ u_arg' = st.keep
    /\ u_pc' = "built"
    /\ UNCHANGED <<u_err, u_a, u_b, u_out, u_score, u_ops>>

\* transform_unary of the instance is called on one signal
CallUnary ==
  /\ u_pc = "built" /\ u_stage \in UnaryStages
  /\ \E signal \in UnaryInputs(u_stage.cls) :
    /\ u_a' = signal
    /\ u_out' = IF Unary_defined(u_stage, signal)
                THEN Ok(Transform_unary(u_stage, signal), NoSignal)
                ELSE Raise("ValueError")
    /\ u_ops' = Unary_ops(u_stage, signal)
    /\ u_pc' = "unary"
    /\ UNCHANGED <<u_arg, u_stage, u_err, u_b, u_score>>

\* transform of the instance is called on two signals
CallTransform ==
  /\ u_pc = "built" /\ u_stage \in UnaryStages
  /\ \E a \in PairInputs(u_stage.cls) :
    \E b \in PairInputs(u_stage.cls) :
      /\ u_a' = a /\ u_b' = b
      /\ u_out' = Transform(u_stage, a, b)
      /\ u_pc' = "pair"
      /\ UNCHANGED <<u_arg, u_stage, u_err, u_score, u_ops>>

(* --------------------------- a scorer on its own ----------------------- *)

\* the scorer classes used on their own
UnitScorers == {"CosineScoring", "PearsonScoring", "NCCScoring"}

\* sample values of the signals given to CosineScoring: 150 * 150 fits
\* int16 and 2 * 150 * 150 does not; 16 * 16 does not fit uint8
CosineVals == {0 - 150, 0, 1, 150}
CosineBytes == {0, 1, 16}
\* sample values of the signals given to PearsonScoring
PearsonVals == {0, 1, 10}

\* the signals given to compare: CosineScoring gets what Recording.signal
\* yields for sample_size 2 and 1, and float vectors; the correlation
\* scorers get 16-bit signals
ScorerInputs(cls) ==
  IF cls = "CosineScoring"
  THEN {Sig(dt, d) : dt \in {"int16", "float"}, d \in SeqsOfLens(CosineVals, FlowLens)}
       \cup {Sig("uint8", d) : d \in SeqsOfLens(CosineBytes, FlowLens)}
  ELSE IntSignals(PearsonVals, 0..MaxPearsonLen)

\* the operations that compare evaluates, in order
Compare_ops(scorer, a, b) ==
  CASE scorer = "CosineScoring" -> CosineScoring_ops(a, b)
    [] scorer = "PearsonScoring" -> PearsonScoring_ops(a, b)
    [] scorer = "NCCScoring" -> NCCScoring_ops(a, b)

\* a scorer is constructed
NewScorer ==
  /\ u_pc = "new"
  /\ \E cls \in UnitScorers :
    /\ u_stage' = Stage(cls, 0)
    /\ u_pc' = "built"
    /\ UNCHANGED <<u_arg, u_err, u_a, u_b, u_out, u_score, u_ops>>

\* compare of the scorer is called on two signals
CallCompare ==
  /\ u_pc = "built" /\ u_stage.cls \in UnitScorers
  /\ \E a \in ScorerInputs(u_stage.cls) :
    \E b \in ScorerInputs(u_stage.cls) :
      /\ u_a' = a /\ u_b' = b
      /\ u_score' = Compare(u_stage.cls, a, b)
      /\ u_ops' = Compare_ops(u_stage.cls, a, b)
      /\ u_pc' = "compared"
      /\ UNCHANGED <<u_arg, u_stage, u_err, u_out>>

(* ----------------------------- compare_files ------------------------- *)

\* a WAV file path: "missing" (no such file), "notwav" (wave.open raises
\* wave.Error), "badframes" (Recording.signal raises ValueError), or "ok"
\* with the signal that Recording.signal yields
File(st, sg) == [status |-> st, signal |-> sg]

CliFiles ==
  {File(st, NoSignal) : st \in {"missing", "notwav", "badframes"}}
  \cup {File("ok", sg) : sg \in IntSignals(SampleVals, {0, 2})}

\* the scoring keys given on the command line
CliKeys == DOMAIN SUPPORTED_SCORING \cup {"euclid"}

\* the lowpass values given on the command line, as numerators over KeepDen
CliLowpass == {0 - 1, 0, KeepDen \div 2, KeepDen + 4}

NoArgs ==
  [mixdown |-> TRUE, normalize |-> TRUE, pad |-> TRUE, fft |-> TRUE,
   magnitude |-> TRUE, lowpass |-> 0, scoring |-> "", verbose |-> FALSE]

\* a printed line; score is the printed value of the similarity score line
Line(m, sc) == [msg |-> m, score |-> sc]

Event(e, w) == [ev |-> e, what |-> w]

CliIdle ==
  /\ cli_pc = "new" /\ cli_args = NoArgs
  /\ files = <<File("missing", NoSignal), File("missing", NoSignal)>>
  /\ cli_sig_a = NoSignal /\ cli_sig_b = NoSignal
  /\ transformer_steps = <<>> /\ out = <<>> /\ events = <<>>
  /\ cli_err = "none"

\* compare_files is called
CliCall ==
  /\ cli_pc = "new"
  /\ cli_args' \in [mixdown : BOOLEAN, normalize : BOOLEAN, pad : BOOLEAN,
                    fft : BOOLEAN, magnitude : BOOLEAN, lowpass : CliLowpass,
                    scoring : CliKeys, verbose : BOOLEAN]
  /\ files' \in [1..2 -> CliFiles]
  /\ cli_pc' = "scoring"
  /\ UNCHANGED <<cli_sig_a, cli_sig_b, transformer_steps, out, events, cli_err>>
  /\ UNCHANGED flowVars

CliCheckScoringNoReturn ==
  /\ cli_pc = "scoring"
  /\ out' = IF cli_args.scoring \notin DOMAIN SUPPORTED_SCORING
            THEN Append(out, Line("unsupported_scoring", NoScore)) ELSE out
  /\ cli_pc' = "load1"
  /\ UNCHANGED <<cli_args, files, cli_sig_a, cli_sig_b, transformer_steps,
                 events, cli_err>>
  /\ UNCHANGED flowVars

\* if scoring not in SUPPORTED_SCORING: print and return
CliCheckScoring ==
  /\ cli_pc = "scoring"
  /\ IF cli_args.scoring \notin DOMAIN SUPPORTED_SCORING
     THEN /\ out' = Append(out, Line("unsupported_scoring", NoScore))
          /\ cli_pc' = "done"
     ELSE /\ out' = out
          /\ cli_pc' = "load1"
  /\ UNCHANGED <<cli_args, files, cli_sig_a, cli_sig_b, transformer_steps,
                 events, cli_err>>
  /\ UNCHANGED flowVars

\* Recording.from_wav(Path(file_path_i)).signal() inside the try block
CliLoad(i) ==
  /\ cli_pc = (IF i = 1 THEN "load1" ELSE "load2")
  /\ CASE files[i].status = "missing" ->
            /\ out' = Append(out, Line("file_not_found", NoScore))
            /\ events' = events
            /\ cli_pc' = "done"
            /\ UNCHANGED <<cli_sig_a, cli_sig_b, cli_err>>
       [] files[i].status = "notwav" ->
            /\ out' = Append(out, Line("wav_error", NoScore))
            /\ events' = Append(events, Event("open", files[i].status))
            /\ cli_pc' = "done"
            /\ UNCHANGED <<cli_sig_a, cli_sig_b, cli_err>>
       [] files[i].status = "badframes" ->
            /\ events' = events \o <<Event("open", files[i].status),
                                     Event("read", files[i].status)>>
            /\ cli_err' = "ValueError"
            /\ cli_pc' = "escaped"
            /\ UNCHANGED <<cli_sig_a, cli_sig_b, out>>
       [] files[i].status = "ok" ->
            /\ events' = events \o <<Event("open", files[i].status),
                                     Event("read", files[i].status)>>
            /\ cli_sig_a' = (IF i = 1 THEN files[i].signal ELSE cli_sig_a)
            /\ cli_sig_b' = (IF i = 2 THEN files[i].signal ELSE cli_sig_b)
            /\ cli_pc' = (IF i = 1 THEN "load2" ELSE "steps")
            /\ UNCHANGED <<out, cli_err>>
  /\ UNCHANGED <<cli_args, files, transformer_steps>>
  /\ UNCHANGED flowVars

CliLoad1 == CliLoad(1)

CliLoad2 == CliLoad(2)

FlagStepsMutantOrder(args) ==
  (IF args.mixdown THEN <<Stage("Mixdown", 0)>> ELSE <<>>)
  \o (IF args.pad THEN <<Stage("PadZero", 0)>> ELSE <<>>)
  \o (IF args.normalize THEN <<Stage("Normalize", 0)>> ELSE <<>>)
  \o (IF args.fft THEN <<Stage("FFT", 0)>> ELSE <<>>)
  \o (IF args.magnitude THEN <<Stage("Magnitude", 0)>> ELSE <<>>)

\* the stages appended for the five flags, in the order of the code
FlagSteps(args) ==
  (IF args.mixdown THEN <<Stage("Mixdown", 0)>> ELSE <<>>)
  \o (IF args.normalize THEN <<Stage("Normalize", 0)>> ELSE <<>>)
  \o (IF args.pad THEN <<Stage("PadZero", 0)>> ELSE <<>>)
  \o (IF args.fft THEN <<Stage("FFT", 0)>> ELSE <<>>)
  \o (IF args.magnitude THEN <<Stage("Magnitude", 0)>> ELSE <<>>)

Constructed(st) == [k \in 1..Len(st) |-> Event("construct", st[k].cls)]

CliBuildStepsNoReturn ==
  /\ cli_pc = "steps"
  /\ LET flagged == FlagSteps(cli_args)
         lp == LowPass_init(cli_args.lowpass)
     IN  IF cli_args.lowpass > 0
         THEN /\ events' = events \o Constructed(flagged)
                             \o <<Event("construct", "LowPass")>>
              /\ IF lp.exc = "ValueError"
                 THEN /\ transformer_steps' = flagged
                      /\ out' = Append(out, Line("lowpass_error", NoScore))
                      /\ cli_pc' = "scorer"
                 ELSE /\ transformer_steps' = Append(flagged, lp.obj)
                      /\ out' = out
                      /\ cli_pc' = "scorer"
         ELSE /\ events' = events \o Constructed(flagged)
              /\ transformer_steps' = flagged
              /\ out' = IF cli_args.verbose /\ cli_args.lowpass # 0
                        THEN Append(out, Line("lowpass_skipped", NoScore))
                        ELSE out
              /\ cli_pc' = "scorer"
  /\ UNCHANGED <<cli_args, files, cli_sig_a, cli_sig_b, cli_err>>
  /\ UNCHANGED flowVars

\* transformer_steps is built; LowPass(keep_ratio=lowpass) is constructed
\* only if lowpass > 0.0, and its ValueError is printed and ends the command
CliBuildSteps ==
  /\ cli_pc = "steps"
  /\ LET flagged == FlagSteps(cli_args)
         lp == LowPass_init(cli_args.lowpass)
     IN  IF cli_args.lowpass > 0
         THEN /\ events' = events \o Constructed(flagged)
                             \o <<Event("construct", "LowPass")>>
              /\ IF lp.exc = "ValueError"
                 THEN /\ transformer_steps' = flagged
                      /\ out' = Append(out, Line("lowpass_error", NoScore))
                      /\ cli_pc' = "done"
                 ELSE /\ transformer_steps' = Append(flagged, lp.obj)
                      /\ out' = out
                      /\ cli_pc' = "scorer"
         ELSE /\ events' = events \o Constructed(flagged)
              /\ transformer_steps' = flagged
              /\ out' = IF cli_args.verbose /\ cli_args.lowpass # 0
                        THEN Append(out, Line("lowpass_skipped", NoScore))
                        ELSE out
              /\ cli_pc' = "scorer"
  /\ UNCHANGED <<cli_args, files, cli_sig_a, cli_sig_b, cli_err>>
  /\ UNCHANGED flowVars

\* scorer = SUPPORTED_SCORING[scoring](), the verbose listing, and
\* flow.Flow(transformer_steps, scorer)
CliNewFlow ==
  /\ cli_pc = "scorer"
  /\ Flow_init(transformer_steps, SUPPORTED_SCORING[cli_args.scoring])
  /\ out' = IF cli_args.verbose
            THEN Append(out, Line("steps_and_scoring", NoScore)) ELSE out
  /\ cli_pc' = "run"
  /\ UNCHANGED <<cli_args, files, cli_sig_a, cli_sig_b, transformer_steps,
                 events, cli_err>>

\* comparison_flow.run(signal_a, signal_b) is entered
CliRun ==
  /\ cli_pc = "run"
  /\ Flow_run(cli_sig_a, cli_sig_b)
  /\ events' = Append(events, Event("run", "Flow"))
  /\ cli_pc' = "running"
  /\ UNCHANGED <<cli_args, files, cli_sig_a, cli_sig_b, transformer_steps,
                 out, cli_err>>

\* run returned: print("Similarity Score:", score)
CliPrint ==
  /\ cli_pc = "running" /\ pc = "returned"
  /\ out' = Append(out, Line("similarity_score", result))
  /\ cli_pc' = "done"
  /\ UNCHANGED <<cli_args, files, cli_sig_a, cli_sig_b, transformer_steps,
                 events, cli_err>>
  /\ UNCHANGED flowVars

\* run raised: nothing catches the exception and it leaves compare_files
CliEscape ==
  /\ cli_pc = "running" /\ pc = "raised"
  /\ cli_err' = err
  /\ cli_pc' = "escaped"
  /\ UNCHANGED <<cli_args, files, cli_sig_a, cli_sig_b, transformer_steps,
                 out, events>>
  /\ UNCHANGED flowVars

(* ------------------- compare_files with its defaults ------------------ *)

\* the default values of the parameters of compare_files; lowpass is 0.1
DefaultArgs ==
  [mixdown |-> TRUE, normalize |-> TRUE, pad |-> TRUE, fft |-> TRUE,
   magnitude |-> TRUE, lowpass |-> KeepDen \div 10, scoring |-> DEFAULT_SCORING,
   verbose |-> FALSE]

\* levels and pulse amplitudes of the 16-bit signals of the scenario
ScenarioBases == {0, 7}
ScenarioAmps == {0 - 2, 0, 1, 3}

\* a pulse train over 100 samples: +1 at samples 0 and 64, -1 at samples 32
\* and 96 (positions 1, 65, 33 and 97 of the sequence)
Pulse(i) == CASE i \in {1, 65} -> 1 [] i \in {33, 97} -> 0 - 1 [] OTHER -> 0

\* mono 16-bit signals of 100 samples: a level plus a multiple of the pulse
\* train.  The amplitude 0 gives the constant signals, among them silence.
\* The z-scores of the others are +5 and -5 at the pulses and 0 elsewhere,
\* and padded to 128 samples they are sparse in the sense of FFT_sparse.
ScenarioSignals ==
  {Sig("int16", [i \in 1..100 |-> b + d * Pulse(i)]) :
     b \in ScenarioBases, d \in ScenarioAmps}

\* the WAV files of the scenario: the signals above and a file of no frames
ScenarioFiles ==
  {File("ok", sg) : sg \in ScenarioSignals \cup {Sig("int16", <<>>)}}

\* compare_files is called with two paths and, but for verbose, no options
CliCallDefault ==
  /\ cli_pc = "new"
  /\ \E v \in BOOLEAN : cli_args' = [DefaultArgs EXCEPT !.verbose = v]
  /\ files' \in [1..2 -> ScenarioFiles]
  /\ cli_pc' = "scoring"
  /\ UNCHANGED <<cli_sig_a, cli_sig_b, transformer_steps, out, events, cli_err>>
  /\ UNCHANGED flowVars

(* ------------------------ Recording and WAV files ---------------------- *)

\* a Recording: frames is the sequence of its bytes
Recording(fr, ch, ss, rate) ==
  [frames |-> fr, channels |-> ch, sample_size |-> ss, frame_rate |-> rate]

\* placeholder where no Recording exists
NoRecording == Recording(<<>>, 0 - 1, 0 - 1, 0 - 1)

\* What a path holds: nothing ("missing"), a file of no bytes ("empty"), a
\* file that does not start with a RIFF header ("garbage"), or a WAV file
\* ("wav") with the fields of its fmt chunk and the bytes of its data chunk
WavFile(st, ch, ss, rate, data) ==
  [status |-> st, nchannels |-> ch, sampwidth |-> ss, framerate |-> rate,
   data |-> data]

NoFile == WavFile("missing", 0, 0, 0, <<>>)

\* the paths: one that from_wav reads first and one that to_wav writes
Paths == {"in", "out"}

\* byte values of frames
ByteVals == {1, 255}
\* a channel count too large for the 16-bit field of the WAV header
WideChannels == 65536
\* channels, sample_size and frame_rate of the recordings constructed
ChannelVals == 0..MaxChannels \cup {WideChannels}
SampleSizes == 0..5
FrameRates == {0, 8000}

Recordings ==
  {Recording(fr, ch, ss, rate) :
     fr \in SeqsUpTo(ByteVals, MaxFrameBytes), ch \in ChannelVals,
     ss \in SampleSizes, rate \in FrameRates}

\* what the "in" path holds before from_wav: nothing, an empty file, a file
\* that is no RIFF file, or a WAV file (channels and sample width of its
\* header up to 5 bytes per sample, any data chunk)
ExternalFiles ==
  {NoFile, WavFile("empty", 0, 0, 0, <<>>), WavFile("garbage", 0, 0, 0, <<>>)}
  \cup {WavFile("wav", ch, ss, rate, d) :
           ch \in 0..MaxChannels, ss \in SampleSizes, rate \in FrameRates,
           d \in SeqsUpTo(ByteVals, MaxFrameBytes)}

\* outcome of from_wav: the Recording returned, or the exception raised
Loaded(r) == [exc |-> "none", rec |-> r]

NotLoaded(e) == [exc |-> e, rec |-> NoRecording]

FromWavMutantAllBytes(file) ==
  CASE file.status = "missing" -> NotLoaded("FileNotFoundError")
    [] file.status = "empty" -> NotLoaded("EOFError")
    [] file.status = "garbage" -> NotLoaded("wave.Error")
    [] file.status = "wav" ->
         IF file.nchannels = 0 \/ file.sampwidth = 0 THEN NotLoaded("wave.Error")
         ELSE Loaded(Recording(file.data, file.nchannels, file.sampwidth,
                               file.framerate))

\* Recording.from_wav: FileNotFoundError unless the path exists; wave.open
\* raises EOFError on a file without bytes and wave.Error on a file that is
\* no WAV file or whose header has no channels or no sample width;
\* readframes(getnframes()) returns the whole frames of the data chunk,
\* getnframes() being its size divided by channels * sample width
Recording_from_wav(file) ==
  CASE file.status = "missing" -> NotLoaded("FileNotFoundError")
    [] file.status = "empty" -> NotLoaded("EOFError")
    [] file.status = "garbage" -> NotLoaded("wave.Error")
    [] file.status = "wav" ->
         IF file.nchannels = 0 \/ file.sampwidth = 0 THEN NotLoaded("wave.Error")
         ELSE LET framesize == file.nchannels * file.sampwidth
                  nframes == Len(file.data) \div framesize
              IN  Loaded(Recording(SubSeq(file.data, 1, nframes * framesize),
                                   file.nchannels, file.sampwidth,
                                   file.framerate))

\* outcome of to_wav: the file left at the path, and the exception raised
Written(e, file) == [exc |-> e, file |-> file]

\* Recording.to_wav: wave.open(.., 'wb') truncates the file; a setter that
\* rejects its value (channels < 1, sample_size outside 1..4, frame_rate
\* <= 0) leaves the header unwritten and close() raises wave.Error; a
\* channel count that does not fit the header makes the header write raise
\* struct.error after the first bytes; otherwise the header and all bytes
\* of frames are written
Recording_to_wav(r) ==
  IF r.channels < 1 \/ r.sample_size < 1 \/ r.sample_size > 4 \/ r.frame_rate < 1
  THEN Written("wave.Error", WavFile("empty", 0, 0, 0, <<>>))
  ELSE IF r.channels >= WideChannels
       THEN Written("struct.error", WavFile("garbage", 0, 0, 0, <<>>))
       ELSE Written("none", WavFile("wav", r.channels, r.sample_size,
                                    r.frame_rate, r.frames))

\* dtype_map of Recording.signal, and the bytes of one item of each dtype
Dtype_map(sample_size) ==
  CASE sample_size = 1 -> "uint8"
    [] sample_size = 2 -> "int16"
    [] sample_size = 3 -> "int32"
    [] sample_size = 4 -> "int32"

ItemSize(dt) ==
  CASE dt = "uint8" -> 1 [] dt = "int16" -> 2 [] dt = "int32" -> 4

\* item number k of np.frombuffer(frames, dtype): little-endian, unsigned
\* for uint8 and two's complement for int16 and int32
Item(frames, dt, k) ==
  LET at(j) == frames[(k - 1) * ItemSize(dt) + j]
  IN  CASE dt = "uint8" -> at(1)
        [] dt = "int16" ->
             at(1) + 256 * (IF at(2) >= 128 THEN at(2) - 256 ELSE at(2))
        [] dt = "int32" ->
             at(1) + 256 * at(2) + 65536 * at(3)
             + 16777216 * (IF at(4) >= 128 THEN at(4) - 256 ELSE at(4))

Frombuffer(frames, dt) ==
  [k \in 1..(Len(frames) \div ItemSize(dt)) |-> Item(frames, dt, k)]

\* outcome of signal: the array returned, or the exception raised
Converted(e, sg) == [exc |-> e, signal |-> sg]

SignalMutantColumns(r) ==
  IF r.sample_size \notin 1..4 THEN Converted("ValueError", NoSignal)
  ELSE LET dtype == Dtype_map(r.sample_size)
           flat == Frombuffer(r.frames, dtype)
       IN  IF Len(r.frames) = 0 THEN Converted("none", Sig(dtype, <<>>))
           ELSE IF Len(r.frames) % ItemSize(dtype) # 0
                THEN Converted("ValueError", NoSignal)
                ELSE IF r.channels > 1
                     THEN IF Len(flat) % r.channels # 0
                          THEN Converted("ValueError", NoSignal)
                          ELSE Converted("none", Matrix(dtype,
                                 [j \in 1..r.channels |->
                                    [i \in 1..(Len(flat) \div r.channels) |->
                                       flat[(i - 1) * r.channels + j]]]))
                     ELSE Converted("none", Sig(dtype, flat))

\* Recording.signal: ValueError for a sample_size that dtype_map lacks; an
\* empty 1-D array for empty frames; np.frombuffer raises ValueError unless
\* the byte count is a multiple of the item size; for channels > 1,
\* reshape(-1, channels) raises ValueError unless the item count is a
\* multiple of channels, and row i holds items (i-1)*channels+1 .. i*channels
Recording_signal(r) ==
  IF r.sample_size \notin 1..4 THEN Converted("ValueError", NoSignal)
  ELSE LET dtype == Dtype_map(r.sample_size)
           flat == Frombuffer(r.frames, dtype)
       IN  IF Len(r.frames) = 0 THEN Converted("none", Sig(dtype, <<>>))
           ELSE IF Len(r.frames) % ItemSize(dtype) # 0
                THEN Converted("ValueError", NoSignal)
                ELSE IF r.channels > 1
                     THEN IF Len(flat) % r.channels # 0
                          THEN Converted("ValueError", NoSignal)
                          ELSE Converted("none", Matrix(dtype,
                                 [i \in 1..(Len(flat) \div r.channels) |->
                                    [j \in 1..r.channels |->
                                       flat[(i - 1) * r.channels + j]]]))
                     ELSE Converted("none", Sig(dtype, flat))

WavIdle ==
  /\ w_pc = "new" /\ rec = NoRecording /\ origin = "none"
  /\ fs = [p \in Paths |-> NoFile]
  /\ back = NoRecording
  /\ sig_out = Converted("none", NoSignal)
  /\ w_err = "none"

\* a Recording is constructed from frames and metadata
NewRecording ==
  /\ w_pc = "new"
  /\ rec' \in Recordings
  /\ origin' = "constructed"
  /\ w_pc' = "have"
  /\ UNCHANGED <<fs, back, sig_out, w_err>>

\* the "in" path is as some other program left it
ExternalWav ==
  /\ w_pc = "new"
  /\ fs' \in {[fs EXCEPT !["in"] = f] : f \in ExternalFiles}
  /\ w_pc' = "file"
  /\ UNCHANGED <<rec, origin, back, sig_out, w_err>>

\* Recording.from_wav("in")
From_wav ==
  /\ w_pc = "file"
  /\ LET r == Recording_from_wav(fs["in"])
     IN  IF r.exc = "none"
         THEN /\ rec' = r.rec /\ origin' = "from_wav" /\ w_pc' = "have"
              /\ UNCHANGED w_err
         ELSE /\ w_err' = r.exc /\ w_pc' = "read_raised"
              /\ UNCHANGED <<rec, origin>>
  /\ UNCHANGED <<fs, back, sig_out>>

\* rec.to_wav("out")
To_wav ==
  /\ w_pc = "have"
  /\ LET w == Recording_to_wav(rec)
     IN  /\ fs' = [fs EXCEPT !["out"] = w.file]
         /\ w_err' = w.exc
         /\ w_pc' = (IF w.exc = "none" THEN "written" ELSE "write_raised")
  /\ UNCHANGED <<rec, origin, back, sig_out>>

\* Recording.from_wav("out") after to_wav wrote it
Reload ==
  /\ w_pc = "written"
  /\ LET r == Recording_from_wav(fs["out"])
     IN  /\ back' = r.rec /\ w_err' = r.exc
  /\ w_pc' = "reloaded"
  /\ UNCHANGED <<rec, origin, fs, sig_out>>

\* rec.signal()
CallSignal ==
  /\ w_pc = "have"
  /\ sig_out' = Recording_signal(rec)
  /\ w_pc' = "converted"
  /\ UNCHANGED <<rec, origin, fs, back, w_err>>

(* ---------------------------- PyAudio devices -------------------------- *)

\* an AudioDevice (its name is left out)
AudioDevice(i, rate, ins, outs) ==
  [index |-> i, default_sample_rate |-> rate, max_input_channels |-> ins,
   max_output_channels |-> outs]

\* placeholder where no device is selected
NoDevice == AudioDevice(0 - 1, 0, 0, 0)

\* the device_index argument: None, or an index
NoneIndex == [given |-> FALSE, index |-> 0]

GivenIndex(i) == [given |-> TRUE, index |-> i]

\* chunk size of record
DEFAULT_CHUNK == 1024

\* what get_device_info_by_index reports of a device: its default sample
\* rate and its input and output channel counts
DeviceInfo(rate, ins, outs) ==
  [defaultSampleRate |-> rate, maxInputChannels |-> ins, maxOutputChannels |-> outs]

DeviceInfos ==
  {DeviceInfo(rate, ins, outs) :
     rate \in {0, DEFAULT_CHUNK}, ins \in {0, 1}, outs \in {0, 2}}

\* the device tables of the backend: entry k describes device index k - 1
DeviceTables == SeqsUpTo(DeviceInfos, MaxDevices)

\* PyAudioDeviceManager._to_device
To_device(index, device_info) ==
  AudioDevice(index, device_info.defaultSampleRate,
              device_info.maxInputChannels, device_info.maxOutputChannels)

\* what one iteration of the loop of list appends
Appended(device, include_input, include_output) ==
  (IF include_input /\ device.max_input_channels > 0 THEN <<device>> ELSE <<>>)
  \o (IF include_output /\ device.max_output_channels > 0 THEN <<device>> ELSE <<>>)

RECURSIVE ListUpTo(_, _, _, _)
\* res after the first n iterations of the loop of list
ListUpTo(table, n, include_input, include_output) ==
  IF n = 0 THEN <<>>
  ELSE ListUpTo(table, n - 1, include_input, include_output)
       \o Appended(To_device(n - 1, table[n]), include_input, include_output)

\* PyAudioDeviceManager.list
PyAudioDeviceManager_list(table, include_input, include_output) ==
  ListUpTo(table, Len(table), include_input, include_output)

\* outcome of a selection: the device, or the exception raised
Selected(d) == [exc |-> "none", device |-> d]

NotSelected(e) == [exc |-> e, device |-> NoDevice]

SelectDefaultMutantAll(table) ==
  LET devices == PyAudioDeviceManager_list(table, TRUE, TRUE)
  IN  IF devices = <<>> THEN NotSelected("None") ELSE Selected(devices[1])

\* PyAudioDeviceManager.select_default_input: the first entry of
\* list(include_output=False), or None
Select_default_input(table) ==
  LET devices == PyAudioDeviceManager_list(table, TRUE, FALSE)
  IN  IF devices = <<>> THEN NotSelected("None") ELSE Selected(devices[1])

\* PyAudioRecorder._select_device
Select_device(table, index) ==
  IF ~index.given
  THEN LET device == Select_default_input(table)
       IN  IF device.exc = "None" THEN NotSelected("NoInputDeviceError")
           ELSE device
  ELSE LET devices == PyAudioDeviceManager_list(table, TRUE, TRUE)
           hits == {k \in 1..Len(devices) : devices[k].index = index.index}
       IN  IF hits = {} THEN NotSelected("InvalidDeviceError")
           ELSE LET device == devices[CHOOSE k \in hits : \A h \in hits : k <= h]
                IN  IF device.max_input_channels <= 0
                    THEN NotSelected("InvalidDeviceError")
                    ELSE Selected(device)

\* the number of chunks that record reads: int(rate / chunk_size * duration)
Chunks(rate, duration) == (rate * duration) \div DEFAULT_CHUNK

AudioIdle ==
  /\ pa_table = <<>> /\ d_pc = "new"
  /\ d_flags = [include_input |-> TRUE, include_output |-> TRUE]
  /\ d_res = <<>> /\ d_index = NoneIndex /\ r_device = NoDevice
  /\ d_err = "none"
  /\ rc_duration = 0 /\ rc_chunks = 0 /\ rc_log = <<>> /\ rc_out = NoRecording

\* the backend has some table of devices
Backend ==
  /\ d_pc = "new"
  /\ pa_table' \in DeviceTables
  /\ d_pc' = "ready"
  /\ UNCHANGED <<d_flags, d_res, d_index, r_device, d_err,
                 rc_duration, rc_chunks, rc_log, rc_out>>

\* PyAudioDeviceManager().list(include_input, include_output)
CallList ==
  /\ d_pc = "ready"
  /\ \E i \in BOOLEAN, o \in BOOLEAN :
       /\ d_flags' = [include_input |-> i, include_output |-> o]
       /\ d_res' = PyAudioDeviceManager_list(pa_table, i, o)
  /\ d_pc' = "listed"
  /\ UNCHANGED <<pa_table, d_index, r_device, d_err,
                 rc_duration, rc_chunks, rc_log, rc_out>>

\* PyAudioRecorder(device_index)
NewRecorder ==
  /\ d_pc = "ready"
  /\ \E index \in {NoneIndex} \cup {GivenIndex(i) : i \in 0..MaxDevices} :
       LET sel == Select_device(pa_table, index)
       IN  /\ d_index' = index
           /\ r_device' = sel.device
           /\ d_err' = sel.exc
           /\ d_pc' = (IF sel.exc = "none" THEN "selected" ELSE "select_raised")
  /\ UNCHANGED <<pa_table, d_flags, d_res, rc_duration, rc_chunks, rc_log, rc_out>>

\* record(duration) up to pyaudio.PyAudio(): the two checks of the device
RecordCall ==
  /\ d_pc = "selected"
  /\ \E duration \in 0..MaxDuration :
       /\ rc_duration' = duration
       /\ IF r_device.max_input_channels <= 0 \/ r_device.default_sample_rate <= 0
          THEN /\ d_err' = "InvalidDeviceError" /\ d_pc' = "record_raised"
               /\ rc_log' = rc_log
          ELSE /\ d_err' = d_err /\ d_pc' = "opening"
               /\ rc_log' = Append(rc_log, "PyAudio")
  /\ UNCHANGED <<pa_table, d_flags, d_res, d_index, r_device, rc_chunks, rc_out>>

\* pa.open(...) returns the stream: the try block is entered
RecordOpen ==
  /\ d_pc = "opening"
  /\ rc_log' = Append(rc_log, "open")
  /\ d_pc' = "reading"
  /\ UNCHANGED <<pa_table, d_flags, d_res, d_index, r_device, d_err,
                 rc_duration, rc_chunks, rc_out>>

\* pa.open(...) raises: the call is outside the try block, so the
\* exception leaves record at once
RecordOpenRaise ==
  /\ d_pc = "opening"
  /\ d_err' = "OSError"
  /\ d_pc' = "record_raised"
  /\ UNCHANGED <<pa_table, d_flags, d_res, d_index, r_device,
                 rc_duration, rc_chunks, rc_log, rc_out>>

\* stream.read(chunk_size) returns a chunk
RecordRead ==
  /\ d_pc = "reading"
  /\ rc_chunks < Chunks(r_device.default_sample_rate, rc_duration)
  /\ rc_chunks' = rc_chunks + 1
  /\ rc_log' = Append(rc_log, "read")
  /\ UNCHANGED <<pa_table, d_pc, d_flags, d_res, d_index, r_device, d_err,
                 rc_duration, rc_out>>

\* stream.read(chunk_size) raises: the finally block runs and the
\* exception leaves record
RecordReadRaise ==
  /\ d_pc = "reading"
  /\ rc_chunks < Chunks(r_device.default_sample_rate, rc_duration)
  /\ rc_log' = rc_log \o <<"stop_stream", "close", "terminate">>
  /\ d_err' = "OSError"
  /\ d_pc' = "record_raised"
  /\ UNCHANGED <<pa_table, d_flags, d_res, d_index, r_device,
                 rc_duration, rc_chunks, rc_out>>

\* the loop is over: the finally block runs and the Recording is returned;
\* its frames are given as the numbers of the chunks joined
RecordReturn ==
  /\ d_pc = "reading"
  /\ rc_chunks = Chunks(r_device.default_sample_rate, rc_duration)
  /\ rc_log' = rc_log \o <<"stop_stream", "close", "terminate">>
  /\ rc_out' = Recording([k \in 1..rc_chunks |-> k], r_device.max_input_channels,
                         2, r_device.default_sample_rate)
  /\ d_pc' = "returned"
  /\ UNCHANGED <<pa_table, d_flags, d_res, d_index, r_device, d_err,
                 rc_duration, rc_chunks>>

(* ----------------------------- specifications -------------------------- *)

Init ==
  /\ FlowIdle /\ UnitIdle /\ CliIdle /\ HeapIdle /\ ReuseIdle /\ ConcIdle
  /\ WavIdle /\ AudioIdle

\* a caller constructs a Flow and runs it
Next ==
  \/ (NewFlow /\ UNCHANGED <<unitVars, cliVars, heapVars, reuseVars, concVars, wavVars, audioVars>>)
  \/ (CallRun /\ UNCHANGED <<unitVars, cliVars, heapVars, reuseVars, concVars, wavVars, audioVars>>)
  \/ (Step /\ UNCHANGED <<unitVars, cliVars, heapVars, reuseVars, concVars, wavVars, audioVars>>)
  \/ (StepRaise /\ UNCHANGED <<unitVars, cliVars, heapVars, reuseVars, concVars, wavVars, audioVars>>)
  \/ (Score /\ UNCHANGED <<unitVars, cliVars, heapVars, reuseVars, concVars, wavVars, audioVars>>)
  \/ (ScoreRaise /\ UNCHANGED <<unitVars, cliVars, heapVars, reuseVars, concVars, wavVars, audioVars>>)

Spec == Init /\ [][Next]_vars

\* a caller constructs a LowPass and applies it to one signal
NextLowPass ==
  \/ (NewLowPass /\ UNCHANGED <<flowVars, cliVars, heapVars, reuseVars, concVars, wavVars, audioVars>>)
  \/ (CallLowPass /\ UNCHANGED <<flowVars, cliVars, heapVars, reuseVars, concVars, wavVars, audioVars>>)

SpecLowPass == Init /\ [][NextLowPass]_vars

\* a caller constructs a PadZero and applies it to two signals
NextPadZero ==
  \/ (NewPadZero /\ UNCHANGED <<flowVars, cliVars, heapVars, reuseVars, concVars, wavVars, audioVars>>)
  \/ (CallPadZero /\ UNCHANGED <<flowVars, cliVars, heapVars, reuseVars, concVars, wavVars, audioVars>>)

SpecPadZero == Init /\ [][NextPadZero]_vars

\* a caller constructs a Flow and runs it on arrays in memory
NextHeap ==
  \/ (NewFlow /\ UNCHANGED <<unitVars, cliVars, heapVars, reuseVars, concVars, wavVars, audioVars>>)
  \/ (HeapRun /\ UNCHANGED <<unitVars, cliVars, reuseVars, concVars, wavVars, audioVars>>)
  \/ (HeapStep /\ UNCHANGED <<unitVars, cliVars, reuseVars, concVars, wavVars, audioVars>>)
  \/ (StepRaise /\ UNCHANGED <<unitVars, cliVars, heapVars, reuseVars, concVars, wavVars, audioVars>>)
  \/ (Score /\ UNCHANGED <<unitVars, cliVars, heapVars, reuseVars, concVars, wavVars, audioVars>>)
  \/ (ScoreRaise /\ UNCHANGED <<unitVars, cliVars, heapVars, reuseVars, concVars, wavVars, audioVars>>)

SpecHeap == Init /\ [][NextHeap]_vars

\* a caller constructs a Flow and runs it several times, one run after
\* the other
NextReuse ==
  \/ (ReuseNew /\ UNCHANGED <<unitVars, cliVars, heapVars, concVars, wavVars, audioVars>>)
  \/ (CallRun /\ UNCHANGED <<unitVars, cliVars, heapVars, reuseVars, concVars, wavVars, audioVars>>)
  \/ (Step /\ UNCHANGED <<unitVars, cliVars, heapVars, reuseVars, concVars, wavVars, audioVars>>)
  \/ (StepRaise /\ UNCHANGED <<unitVars, cliVars, heapVars, reuseVars, concVars, wavVars, audioVars>>)
  \/ (Score /\ UNCHANGED <<unitVars, cliVars, heapVars, reuseVars, concVars, wavVars, audioVars>>)
  \/ (ScoreRaise /\ UNCHANGED <<unitVars, cliVars, heapVars, reuseVars, concVars, wavVars, audioVars>>)
  \/ (RunAgain /\ UNCHANGED <<unitVars, cliVars, heapVars, concVars, wavVars, audioVars>>)

SpecReuse == Init /\ [][NextReuse]_vars

\* a Flow is constructed and run by concurrent callers, whose loop
\* iterations interleave
NextConc ==
  \/ (NewFlow /\ UNCHANGED <<unitVars, cliVars, heapVars, reuseVars, concVars, wavVars, audioVars>>)
  \/ (\E t \in Threads :
        ConcRun(t) /\ UNCHANGED <<flowVars, unitVars, cliVars, heapVars, reuseVars, wavVars, audioVars>>)
  \/ (\E t \in Threads :
        ConcStep(t) /\ UNCHANGED <<flowVars, unitVars, cliVars, heapVars, reuseVars, wavVars, audioVars>>)
  \/ (\E t \in Threads :
        ConcScore(t) /\ UNCHANGED <<flowVars, unitVars, cliVars, heapVars, reuseVars, wavVars, audioVars>>)

SpecConc == Init /\ [][NextConc]_vars

\* a caller constructs a unary-shaped stage and calls it once
NextStage ==
  \/ (NewUnary /\ UNCHANGED <<flowVars, cliVars, heapVars, reuseVars, concVars, wavVars, audioVars>>)
  \/ (CallUnary /\ UNCHANGED <<flowVars, cliVars, heapVars, reuseVars, concVars, wavVars, audioVars>>)
  \/ (CallTransform /\ UNCHANGED <<flowVars, cliVars, heapVars, reuseVars, concVars, wavVars, audioVars>>)

SpecStage == Init /\ [][NextStage]_vars

\* a caller constructs a scorer and calls compare once
NextScorer ==
  \/ (NewScorer /\ UNCHANGED <<flowVars, cliVars, heapVars, reuseVars, concVars, wavVars, audioVars>>)
  \/ (CallCompare /\ UNCHANGED <<flowVars, cliVars, heapVars, reuseVars, concVars, wavVars, audioVars>>)

SpecScorer == Init /\ [][NextScorer]_vars

\* recordings are constructed or loaded, written, loaded again, converted
NextWav ==
  \/ (NewRecording /\ UNCHANGED <<flowVars, unitVars, cliVars, heapVars, reuseVars, concVars, audioVars>>)
  \/ (ExternalWav /\ UNCHANGED <<flowVars, unitVars, cliVars, heapVars, reuseVars, concVars, audioVars>>)
  \/ (From_wav /\ UNCHANGED <<flowVars, unitVars, cliVars, heapVars, reuseVars, concVars, audioVars>>)
  \/ (To_wav /\ UNCHANGED <<flowVars, unitVars, cliVars, heapVars, reuseVars, concVars, audioVars>>)
  \/ (Reload /\ UNCHANGED <<flowVars, unitVars, cliVars, heapVars, reuseVars, concVars, audioVars>>)
  \/ (CallSignal /\ UNCHANGED <<flowVars, unitVars, cliVars, heapVars, reuseVars, concVars, audioVars>>)

SpecWav == Init /\ [][NextWav]_vars

\* devices are listed, or a recorder is constructed and records once
NextAudio ==
  \/ (Backend /\ UNCHANGED <<flowVars, unitVars, cliVars, heapVars, reuseVars, concVars, wavVars>>)
  \/ (CallList /\ UNCHANGED <<flowVars, unitVars, cliVars, heapVars, reuseVars, concVars, wavVars>>)
  \/ (NewRecorder /\ UNCHANGED <<flowVars, unitVars, cliVars, heapVars, reuseVars, concVars, wavVars>>)
  \/ (RecordCall /\ UNCHANGED <<flowVars, unitVars, cliVars, heapVars, reuseVars, concVars, wavVars>>)
  \/ (RecordOpen /\ UNCHANGED <<flowVars, unitVars, cliVars, heapVars, reuseVars, concVars, wavVars>>)
  \/ (RecordOpenRaise /\ UNCHANGED <<flowVars, unitVars, cliVars, heapVars, reuseVars, concVars, wavVars>>)
  \/ (RecordRead /\ UNCHANGED <<flowVars, unitVars, cliVars, heapVars, reuseVars, concVars, wavVars>>)
  \/ (RecordReadRaise /\ UNCHANGED <<flowVars, unitVars, cliVars, heapVars, reuseVars, concVars, wavVars>>)
  \/ (RecordReturn /\ UNCHANGED <<flowVars, unitVars, cliVars, heapVars, reuseVars, concVars, wavVars>>)

SpecAudio == Init /\ [][NextAudio]_vars

\* the command line runs compare_files with its default options.  After
\* PadZero the two signals have one length, so the compare of the default
\* scorer does not raise and ScoreRaise is not a step of this system.
NextDefault ==
  \/ (CliCallDefault /\ UNCHANGED <<unitVars, heapVars, reuseVars, concVars, wavVars, audioVars>>)
  \/ (CliCheckScoring /\ UNCHANGED <<unitVars, heapVars, reuseVars, concVars, wavVars, audioVars>>)
  \/ (CliLoad1 /\ UNCHANGED <<unitVars, heapVars, reuseVars, concVars, wavVars, audioVars>>)
  \/ (CliLoad2 /\ UNCHANGED <<unitVars, heapVars, reuseVars, concVars, wavVars, audioVars>>)
  \/ (CliBuildSteps /\ UNCHANGED <<unitVars, heapVars, reuseVars, concVars, wavVars, audioVars>>)
  \/ (CliNewFlow /\ UNCHANGED <<unitVars, heapVars, reuseVars, concVars, wavVars, audioVars>>)
  \/ (CliRun /\ UNCHANGED <<unitVars, heapVars, reuseVars, concVars, wavVars, audioVars>>)
  \/ (Step /\ UNCHANGED <<unitVars, cliVars, heapVars, reuseVars, concVars, wavVars, audioVars>>)
  \/ (StepRaise /\ UNCHANGED <<unitVars, cliVars, heapVars, reuseVars, concVars, wavVars, audioVars>>)
  \/ (Score /\ UNCHANGED <<unitVars, cliVars, heapVars, reuseVars, concVars, wavVars, audioVars>>)
  \/ (CliPrint /\ UNCHANGED <<unitVars, heapVars, reuseVars, concVars, wavVars, audioVars>>)
  \/ (CliEscape /\ UNCHANGED <<unitVars, heapVars, reuseVars, concVars, wavVars, audioVars>>)

SpecDefault == Init /\ [][NextDefault]_vars

\* the command line runs compare_files once
NextCli ==
  \/ (CliCall /\ UNCHANGED <<unitVars, heapVars, reuseVars, concVars, wavVars, audioVars>>)
  \/ (CliCheckScoring /\ UNCHANGED <<unitVars, heapVars, reuseVars, concVars, wavVars, audioVars>>)
  \/ (CliLoad1 /\ UNCHANGED <<unitVars, heapVars, reuseVars, concVars, wavVars, audioVars>>)
  \/ (CliLoad2 /\ UNCHANGED <<unitVars, heapVars, reuseVars, concVars, wavVars, audioVars>>)
  \/ (CliBuildSteps /\ UNCHANGED <<unitVars, heapVars, reuseVars, concVars, wavVars, audioVars>>)
  \/ (CliNewFlow /\ UNCHANGED <<unitVars, heapVars, reuseVars, concVars, wavVars, audioVars>>)
  \/ (CliRun /\ UNCHANGED <<unitVars, heapVars, reuseVars, concVars, wavVars, audioVars>>)
  \/ (Step /\ UNCHANGED <<unitVars, cliVars, heapVars, reuseVars, concVars, wavVars, audioVars>>)
  \/ (StepRaise /\ UNCHANGED <<unitVars, cliVars, heapVars, reuseVars, concVars, wavVars, audioVars>>)
  \/ (Score /\ UNCHANGED <<unitVars, cliVars, heapVars, reuseVars, concVars, wavVars, audioVars>>)
  \/ (ScoreRaise /\ UNCHANGED <<unitVars, cliVars, heapVars, reuseVars, concVars, wavVars, audioVars>>)
  \/ (CliPrint /\ UNCHANGED <<unitVars, heapVars, reuseVars, concVars, wavVars, audioVars>>)
  \/ (CliEscape /\ UNCHANGED <<unitVars, heapVars, reuseVars, concVars, wavVars, audioVars>>)

SpecCli == Init /\ [][NextCli]_vars

(* ------------------------------- Flow.run ------------------------------ *)

\* the pair that the invocation after the first n logged ones must receive
Threaded(n) ==
  IF n = 0 THEN <<arg_a, arg_b>> ELSE <<calls[n].out_a, calls[n].out_b>>

\* C1: one call of Flow.run invokes the transform of every stage exactly
\* once and in list order, the first on the caller's pair and each later one
\* on the pair that the stage before it returned; then it invokes the
\* scorer's compare once, on the last returned pair, and returns that
\* result unchanged.
C1_RunThreadsStages ==
  /\ \A i \in 1..Len(calls) :
       /\ <<calls[i].in_a, calls[i].in_b>> = Threaded(i - 1)
       /\ i <= Len(steps) =>
            /\ calls[i].op = "transform" /\ calls[i].who = i
            /\ calls[i].exc = "none" =>
                 Ok(calls[i].out_a, calls[i].out_b)
                   = Transform(steps[i], calls[i].in_a, calls[i].in_b)
       /\ i > Len(steps) => (calls[i].op = "compare" /\ i = Len(steps) + 1)
  /\ pc = "returned" =>
       /\ Len(calls) = Len(steps) + 1
       /\ Returns(result)
            = Compare(scoring, Threaded(Len(steps))[1], Threaded(Len(steps))[2])
       /\ result = calls[Len(calls)].score

\* a run of two stages that both changed the pair has returned
C1_Witness ==
  /\ pc = "returned" /\ Len(steps) = 2
  /\ <<calls[1].out_a, calls[1].out_b>> # <<arg_a, arg_b>>
  /\ <<calls[2].out_a, calls[2].out_b>> # <<calls[1].out_a, calls[1].out_b>>
  /\ calls[2].out_a # calls[2].out_b

\* C2: a Flow with an empty stage list runs, and what run yields for (a, b)
\* is what the scorer's compare yields for the untransformed (a, b): the
\* same score, or the same exception.
C2_EmptyFlowIsCompare ==
  (steps = <<>> /\ pc \in {"returned", "raised"}) =>
     LET direct == Compare(scoring, arg_a, arg_b)
     IN  /\ pc = "returned" <=> direct.exc = "none"
         /\ result = direct.score
         /\ err = direct.exc

\* an empty Flow has scored two different signals
C2_Witness ==
  /\ steps = <<>> /\ pc = "returned"
  /\ arg_a # arg_b
  /\ Len(arg_a.data) = 2
  /\ result.kind = "ext"

\* C3: an exception raised by a stage's transform or by the scorer's compare
\* leaves run at once: the raising invocation is the last one made (no later
\* stage, no compare, no second attempt), run is left with that exception
\* and no score is returned.
C3_ErrorLeavesRun ==
  /\ \A i \in 1..Len(calls) :
       calls[i].exc # "none" =>
         /\ i = Len(calls)
         /\ pc = "raised"
         /\ err = calls[i].exc
         /\ result = NoScore
  /\ pc = "raised" => (calls # <<>> /\ calls[Len(calls)].exc # "none")
  /\ pc = "returned" => err = "none"

\* a stage that is not the last one raised, and run was left
C3_Witness ==
  /\ pc = "raised"
  /\ calls[Len(calls)].op = "transform"
  /\ Len(calls) < Len(steps)

(* ------------------------------- LowPass ------------------------------- *)

\* C4 as stated: construction succeeds exactly for 0.0 <= r <= 1.0, and
\* outside that interval it fails with an InvalidParameter error and yields
\* no instance.
C4_AsStated ==
  u_pc # "new" =>
    /\ u_err = "none" <=> (0 <= u_arg /\ u_arg <= KeepDen)
    /\ u_err # "none" => (u_err = "InvalidParameter" /\ u_stage = NoStage)

\* C4, amended: construction succeeds exactly for 0.0 <= r <= 1.0, both
\* endpoints included, and yields an instance holding r; outside that
\* interval it raises ValueError and yields no instance.
C4_LowPassRange ==
  u_pc # "new" =>
    /\ u_err = "none" <=> (0 <= u_arg /\ u_arg <= KeepDen)
    /\ u_err = "none" => u_stage = Stage("LowPass", u_arg)
    /\ u_err # "none" => (u_err = "ValueError" /\ u_stage = NoStage
                          /\ u_pc = "failed")

\* the keep ratio 1.0 was accepted and applied
C4_Witness ==
  /\ u_pc = "done" /\ u_arg = KeepDen /\ u_stage.cls = "LowPass"
  /\ Len(u_a.data) > 0

\* the largest q with q <= x / y, for x >= 0 and y > 0
FloorDiv(x, y) == CHOOSE q \in 0..x : q * y <= x /\ x < (q + 1) * y

\* C10: on a non-empty signal of n elements a LowPass with 0 < keep_ratio
\* returns exactly the first max(1, floor(n * keep_ratio)) elements in their
\* order, never an empty signal; with keep_ratio = 0 it returns an empty one.
C10_LowPassPrefix ==
  (u_pc = "done" /\ u_stage.cls = "LowPass") =>
    LET n == Len(u_a.data)
        m == Max(1, FloorDiv(n * u_stage.keep, KeepDen))
    IN  /\ u_out.exc = "none"
        /\ (n > 0 /\ u_stage.keep > 0) =>
             /\ Len(u_out.a.data) = m
             /\ m >= 1 /\ m <= n
             /\ \A i \in 1..m : u_out.a.data[i] = u_a.data[i]
        /\ u_stage.keep = 0 => u_out.a.data = <<>>

\* a positive keep ratio whose cutoff truncates to zero kept one element
C10_Witness ==
  /\ u_pc = "done" /\ u_stage.cls = "LowPass"
  /\ u_stage.keep > 0 /\ Len(u_a.data) * u_stage.keep < KeepDen
  /\ Len(u_a.data) >= 3
  /\ u_out.a.data = <<u_a.data[1]>>

(* ------------------------------- PadZero ------------------------------- *)

IsPow2(n) == \E k \in 0..n : 2 ^ k = n

\* C8: for two signals that are not both empty PadZero.transform returns
\* two signals of one length n, the smallest power of two that is at least
\* the longer input's length; each output starts with its input's elements
\* and is zero after them.
C8_PadToPowerOfTwo ==
  (u_pc = "done" /\ u_stage.cls = "PadZero"
     /\ Max(Len(u_a.data), Len(u_b.data)) > 0) =>
    LET max_len == Max(Len(u_a.data), Len(u_b.data))
        n == Len(u_out.a.data)
    IN  /\ u_out.exc = "none"
        /\ Len(u_out.b.data) = n
        /\ IsPow2(n) /\ n >= max_len
        /\ \A m \in max_len..(n - 1) : ~IsPow2(m)
        /\ \A i \in 1..n :
             /\ u_out.a.data[i] = IF i <= Len(u_a.data) THEN u_a.data[i] ELSE 0
             /\ u_out.b.data[i] = IF i <= Len(u_b.data) THEN u_b.data[i] ELSE 0

\* signals of 3 and 5 elements, both ending in a non-zero one, were padded
\* to 8
C8_Witness ==
  /\ u_pc = "done" /\ u_stage.cls = "PadZero"
  /\ Len(u_a.data) = 3 /\ Len(u_b.data) = 5
  /\ u_a.data[3] = 1 /\ u_b.data[5] = 1
  /\ Len(u_out.a.data) = 8

\* C9: two empty inputs are returned unchanged and nothing is raised; when
\* exactly one input is empty it becomes an all-zero signal of the common
\* power-of-two length.
C9_PadEmpty ==
  (u_pc = "done" /\ u_stage.cls = "PadZero") =>
    /\ u_out.exc = "none"
    /\ (Len(u_a.data) = 0 /\ Len(u_b.data) = 0) => u_out = Ok(u_a, u_b)
    /\ (Len(u_a.data) = 0 /\ Len(u_b.data) > 0) =>
         /\ u_out.a.data = Zeros(Len(u_out.b.data))
         /\ IsPow2(Len(u_out.a.data))
    /\ (Len(u_b.data) = 0 /\ Len(u_a.data) > 0) =>
         /\ u_out.b.data = Zeros(Len(u_out.a.data))
         /\ IsPow2(Len(u_out.b.data))

\* an empty second input was padded to the four zeros that match a first
\* input of three elements
C9_Witness ==
  /\ u_pc = "done" /\ u_stage.cls = "PadZero"
  /\ Len(u_a.data) = 3 /\ Len(u_b.data) = 0
  /\ u_out.b.data = <<0, 0, 0, 0>>

(* ----------------------------- compare_files --------------------------- *)

ScorePrinted == \E i \in 1..Len(out) : out[i].msg = "similarity_score"

C6_UnknownScoringFirst ==
  (cli_pc # "new" /\ cli_args.scoring \notin DOMAIN SUPPORTED_SCORING) =>
    /\ events = <<>>
    /\ transformer_steps = <<>>
    /\ pc = "new" /\ calls = <<>>
    /\ ~ScorePrinted
    /\ cli_sig_a = NoSignal /\ cli_sig_b = NoSignal
    /\ cli_pc \in {"scoring", "done"}
    /\ cli_pc = "done" => out = <<Line("unsupported_scoring", NoScore)>>

\* an unknown key was reported although both files are readable and every
\* stage was asked for
C6_Witness ==
  /\ cli_pc = "done" /\ cli_args.scoring = "euclid"
  /\ files[1].status = "ok" /\ files[2].status = "ok"
  /\ cli_args.mixdown /\ cli_args.lowpass = KeepDen \div 2
  /\ out = <<Line("unsupported_scoring", NoScore)>>

\* the scorer classes that have a compare of their own
ScorerClasses ==
  {"CosineScoring", "PearsonScoring", "SpearmanScoring", "KendallTauScoring",
   "NCCScoring"}

\* C7: the registry has exactly the keys cosine, pearson, spearman, kendall
\* and ncc, mapped to five different scorer classes; the default key is
\* cosine and is a key of the registry.  The scorer that compare_files
\* builds is the registry's class for the key it was given.
C7_ScorerRegistry ==
  /\ DOMAIN SUPPORTED_SCORING = {"cosine", "pearson", "spearman", "kendall", "ncc"}
  /\ \A k \in DOMAIN SUPPORTED_SCORING : SUPPORTED_SCORING[k] \in ScorerClasses
  /\ \A k1, k2 \in DOMAIN SUPPORTED_SCORING :
       SUPPORTED_SCORING[k1] = SUPPORTED_SCORING[k2] => k1 = k2
  /\ Cardinality({SUPPORTED_SCORING[k] : k \in DOMAIN SUPPORTED_SCORING}) = 5
  /\ DEFAULT_SCORING = "cosine"
  /\ DEFAULT_SCORING \in DOMAIN SUPPORTED_SCORING
  /\ scoring # "none" =>
       /\ cli_args.scoring \in DOMAIN SUPPORTED_SCORING
       /\ scoring = SUPPORTED_SCORING[cli_args.scoring]
       /\ cli_args.scoring = "kendall" => scoring = "KendallTauScoring"
       /\ cli_args.scoring = DEFAULT_SCORING => scoring = "CosineScoring"

\* the command scored two signals with the scorer of the key kendall
C7_Witness ==
  /\ cli_pc = "done" /\ cli_args.scoring = "kendall"
  /\ scoring = "KendallTauScoring"
  /\ ScorePrinted
  /\ out[Len(out)].score.fn = "kendalltau"

\* C11: Mixdown.transform_unary returns a 1-D input as it is, and of a
\* matrix of n rows it returns a 1-D signal of n elements whose element i is
\* the arithmetic mean of row i (the row's sum over its number of columns).
C11_Mixdown ==
  (u_pc = "unary" /\ u_stage.cls = "Mixdown") =>
    /\ u_out.exc = "none"
    /\ u_a.ndim = 1 => u_out.a = u_a
    /\ u_a.ndim = 2 =>
         /\ u_out.a.ndim = 1
         /\ Len(u_out.a.data) = Len(u_a.data)
         /\ u_out.a.den > 0
         /\ \A i \in 1..Len(u_a.data) :
              u_out.a.data[i] * Len(u_a.data[i]) = u_out.a.den * SumSeq(u_a.data[i])

\* a two-channel matrix whose first row [-1, 2] has the mean 1/2
C11_Witness ==
  /\ u_pc = "unary" /\ u_stage.cls = "Mixdown"
  /\ u_a.ndim = 2 /\ u_a.dtype = "int16"
  /\ u_a.data = <<(<<0 - 1, 2>>), <<2, 2>>>>
  /\ u_out.a.data = <<1, 4>> /\ u_out.a.den = 2

IsConstant(signal) == \A i \in 1..Len(signal.data) : signal.data[i] = signal.data[1]

\* C12, as claimed: of every non-empty signal that is constant or whose std
\* is below eps, Normalize.transform_unary returns zeros of the same shape
\* without dividing; of a signal whose std is at least eps it returns
\* (signal - mean) / std.
C12_AsStated ==
  (u_pc = "unary" /\ u_stage.cls = "Normalize" /\ Len(u_a.data) > 0) =>
    /\ u_out.exc = "none"
    /\ u_out.a.ndim = u_a.ndim /\ Len(u_out.a.data) = Len(u_a.data)
    /\ u_out.a.den = 1
    /\ (IsConstant(u_a) \/ StdTimesLen(u_a) < 1) =>
         /\ \A i \in 1..Len(u_a.data) : u_out.a.data[i] = 0
         /\ \A k \in 1..Len(u_ops) : u_ops[k] # "div"
    /\ StdTimesLen(u_a) >= 1 =>
         \A i \in 1..Len(u_a.data) :
           u_out.a.data[i] * StdTimesLen(u_a) = DevNum(u_a, i)

\* C13: CosineScoring.compare of two signals of equal length returns exactly
\* 0.0, and evaluates no division, whenever the norm of either is zero:
\* compare(v, 0) for every v and compare(0, 0), whatever the length.
C13_CosineZeroNorm ==
  (/\ u_pc = "compared" /\ u_stage.cls = "CosineScoring"
   /\ Len(u_a.data) = Len(u_b.data)
   /\ (NormSq(u_a) = 0 \/ NormSq(u_b) = 0)) =>
    /\ u_score = Returns(NumScore(0, 1))
    /\ \A k \in 1..Len(u_ops) : u_ops[k] # "div"

\* compare(v, 0) with v = [150, 1] and compare(0, 0) with one sample each
C13_Witness ==
  /\ u_pc = "compared" /\ u_stage.cls = "CosineScoring"
  /\ u_score = Returns(NumScore(0, 1))
  /\ \/ u_a.data = <<150, 1>> /\ u_b.data = <<0, 0>>
     \/ u_a.data = <<0>> /\ u_b.data = <<0>>

\* the score is the number 1.0 (-1.0): num / sqrt(densq) with num^2 = densq
IsOne(score) ==
  score.kind = "num" /\ score.num > 0 /\ score.num * score.num = score.densq

IsMinusOne(score) ==
  score.kind = "num" /\ score.num < 0 /\ score.num * score.num = score.densq

Negated(signal) == Sig(signal.dtype, [i \in 1..Len(signal.data) |-> 0 - signal.data[i]])

\* C14, as claimed: for every real-valued non-zero vector v, fixed-width
\* integer vectors included, CosineScoring.compare(v, v) is 1.0 and
\* CosineScoring.compare(v, -v) is -1.0.
C14_AsStated ==
  (/\ u_pc = "compared" /\ u_stage.cls = "CosineScoring"
   /\ NormSq(u_a) # 0) =>
    /\ u_b = u_a => (u_score.exc = "none" /\ IsOne(u_score.score))
    /\ (u_a.dtype # "uint8" /\ u_b = Negated(u_a)) =>
         (u_score.exc = "none" /\ IsMinusOne(u_score.score))

\* a non-empty constant signal: the signals whose standard deviation is zero
ZeroStd(signal) == Len(signal.data) > 0 /\ IsConstant(signal)

C16_InputsUntouched ==
  (pc \in {"loop", "returned", "raised"}) =>
    /\ Contents(heap, own_a) = arg_a
    /\ Contents(heap, own_b) = arg_b
    /\ Contents(heap, ref_a) = signal_a
    /\ Contents(heap, ref_b) = signal_b

\* LowPass returned a view of the caller's array and Magnitude a new array
C16_Witness ==
  /\ pc = "returned"
  /\ steps = <<Stage("LowPass", KeepDen \div 2), Stage("Magnitude", 0)>>
  /\ arg_a.data = <<0 - 1, 0 - 1>>
  /\ own_a = Ref(1, 2) /\ heap[1].data = <<0 - 1, 0 - 1>>
  /\ ref_a.buf # own_a.buf /\ signal_a.data = <<1>>

\* C17: a Flow is reusable.  Flow.run leaves the stage list, the stages'
\* parameters and the scorer as the constructor got them, and every run,
\* whatever runs came before it, ends as the first run of a fresh Flow of
\* the same configuration ends on the same arguments.
C17_FlowReusable ==
  (pc # "new") =>
    /\ steps = cfg.steps /\ scoring = cfg.scoring
    /\ pc = "returned" =>
         Returns(result) = Flow_run_outcome(cfg.steps, cfg.scoring, arg_a, arg_b)
    /\ pc = "raised" =>
         Raises(err) = Flow_run_outcome(cfg.steps, cfg.scoring, arg_a, arg_b)

\* a second run on a Flow of two stages, one a LowPass, has returned
C17_Witness ==
  /\ runs = 1 /\ pc = "returned"
  /\ steps = <<Stage("LowPass", KeepDen \div 2), Stage("Normalize", 0)>>
  /\ arg_a.data = <<1, 0 - 1>>
  /\ result = NumScore(0, 1)

\* C18: concurrent run calls on one Flow, interleaved at stage steps, do
\* not affect each other.  What remains of a call's loop, applied to the
\* call's locals, ends as the call alone ends on its arguments, and a call
\* that has ended ended so.
C18_RunsIndependent ==
  \A t \in Threads :
    LET alone == Flow_run_outcome(steps, scoring, t_in[t].a, t_in[t].b)
    IN  /\ t_pc[t] = "loop" =>
             Flow_run_outcome(SubSeq(steps, t_idx[t] + 1, Len(steps)), scoring,
                              t_a[t], t_b[t]) = alone
        /\ t_pc[t] \in {"returned", "raised"} => t_out[t] = alone

\* two calls with different arguments are both between the two stages, and
\* their locals differ
C18_Witness ==
  /\ steps = <<Stage("Normalize", 0), Stage("FFT", 0)>>
  /\ t_pc[1] = "loop" /\ t_pc[2] = "loop"
  /\ t_idx[1] = 1 /\ t_idx[2] = 1
  /\ t_in[1] # t_in[2]
  /\ t_b[1] # t_b[2]

\* C19: for a unary-shaped stage U, U.transform(a, b) is the pair
\* (U.transform_unary(a), U.transform_unary(b)), in this order, and raises
\* if either transform_unary raises; the first output is the same for every
\* other second argument, and the second output for every other first one.
C19_UnaryPair ==
  (u_pc = "pair" /\ u_stage \in UnaryStages) =>
    IF Unary_defined(u_stage, u_a) /\ Unary_defined(u_stage, u_b)
    THEN /\ u_out.exc = "none"
         /\ u_out.a = Transform_unary(u_stage, u_a)
         /\ u_out.b = Transform_unary(u_stage, u_b)
         /\ \A x \in PairInputs(u_stage.cls) :
              Unary_defined(u_stage, x) =>
                /\ Transform(u_stage, u_a, x).a = u_out.a
                /\ Transform(u_stage, x, u_b).b = u_out.b
    ELSE u_out.exc = "ValueError"

\* Normalize.transform on a non-constant and a constant signal
C19_Witness ==
  /\ u_pc = "pair" /\ u_stage.cls = "Normalize"
  /\ u_a.data = <<0 - 1, 1>> /\ u_b.data = <<1, 1>>
  /\ u_out.a.data = <<0 - 1, 1>> /\ u_out.b.data = <<0, 0>>

NonNegative(signal) == \A i \in 1..Len(signal.data) : signal.data[i] >= 0

\* C20, as claimed: for every real 1-D input x, FFT and then Magnitude
\* yield len(x) elements, each real and non-negative; and Magnitude returns
\* the values of a signal that is real and non-negative already.
C20_AsStated ==
  /\ (/\ steps = <<Stage("FFT", 0), Stage("Magnitude", 0)>>
      /\ pc \in {"loop", "returned", "raised"}) =>
       /\ ~(pc = "raised" /\ idx < 2)
       /\ idx = 2 =>
            /\ Len(signal_a.data) = Len(arg_a.data)
            /\ Len(signal_b.data) = Len(arg_b.data)
            /\ signal_a.dtype = "float" /\ signal_b.dtype = "float"
            /\ NonNegative(signal_a) /\ NonNegative(signal_b)
  /\ (/\ steps = <<Stage("Magnitude", 0)>> /\ pc = "loop" /\ idx = 1) =>
       /\ NonNegative(arg_a) => signal_a.data = arg_a.data
       /\ NonNegative(arg_b) => signal_b.data = arg_b.data

(* ------------------------- the default pipeline ------------------------ *)

\* the last printed line is the similarity score line
LastScore == out[Len(out)].score

\* two loaded files hold the same 100 samples
IdenticalPair ==
  /\ files[1].status = "ok" /\ files[2].status = "ok"
  /\ files[1].signal = files[2].signal
  /\ Len(files[1].signal.data) = 100

\* C21, as claimed: for any two identical mono 16-bit signals of length 100
\* the default pipeline (Mixdown, Normalize, PadZero, FFT, Magnitude,
\* LowPass with keep ratio 0.1) scored with CosineScoring yields 1.0.
C21_AsStated ==
  (cli_pc \in {"done", "escaped"} /\ IdenticalPair) =>
    /\ cli_pc = "done" /\ ScorePrinted
    /\ IsOne(LastScore)

\* C21, amended: for two identical mono 16-bit signals of length 100 that
\* are not constant the default pipeline scored with CosineScoring yields
\* 1.0; for two identical constant signals (silence among them) Normalize
\* yields zeros and the score is 0.0.  In both cases the stages are the six
\* default ones in order and the scorer receives two equal vectors, the
\* first 12 of 128 magnitudes.
C21_DefaultPipeline ==
  (cli_pc \in {"done", "escaped"} /\ IdenticalPair) =>
    /\ cli_pc = "done" /\ ScorePrinted
    /\ steps = FlagSteps(DefaultArgs) \o <<Stage("LowPass", DefaultArgs.lowpass)>>
    /\ scoring = "CosineScoring"
    /\ signal_a = signal_b
    /\ Len(signal_a.data) = (128 * DefaultArgs.lowpass) \div KeepDen
    /\ IF IsConstant(files[1].signal)
       THEN LastScore = NumScore(0, 1)
       ELSE IsOne(LastScore)

\* two identical files of pulses of amplitude 3 on the level 7 scored 1.0
\* on the magnitudes of the bins 0 to 11, which are 20 at bins 2, 6 and 10
C21_Witness ==
  /\ cli_pc = "done" /\ IdenticalPair
  /\ files[1].signal.data[1] = 10 /\ files[1].signal.data[33] = 4
  /\ files[1].signal.data[2] = 7
  /\ signal_a.data = <<0, 0, 20, 0, 0, 0, 20, 0, 0, 0, 20, 0>>
  /\ IsOne(LastScore)

(* ------------------- errors that reach the command line ---------------- *)

\* C22, as claimed: compare_files catches every error of the core (stage
\* construction, Recording.signal, Flow.run, the scorer's compare) and prints
\* a message for it; no exception leaves compare_files.
C22_AsStated ==
  /\ cli_pc # "escaped"
  /\ cli_pc = "done" => out # <<>>

(* ------------------------------ NCCScoring ----------------------------- *)

\* C23, as claimed: NCCScoring.compare returns 0.0 if either input signal
\* has zero standard deviation, and divides by no zero standard deviation.
C23_AsStated ==
  (/\ u_pc = "compared" /\ u_stage.cls = "NCCScoring"
   /\ Len(u_a.data) > 0 /\ Len(u_b.data) > 0
   /\ (ZeroStd(u_a) \/ ZeroStd(u_b))) =>
    /\ u_score = Returns(NumScore(0, 1))
    /\ \A k \in 1..Len(u_ops) : u_ops[k] # "div"

(* ------------------------- Recording and WAV files --------------------- *)

\* the Recording that to_wav left at the "out" path, with all its bytes
OutHolds(r) ==
  fs["out"] = WavFile("wav", r.channels, r.sample_size, r.frame_rate, r.frames)

Writable(r) ==
  /\ r.channels >= 1 /\ r.channels < WideChannels
  /\ r.sample_size \in 1..4 /\ r.frame_rate >= 1

\* the frames without the bytes after the last whole frame
WholeFrames(r) ==
  SubSeq(r.frames, 1,
         (Len(r.frames) \div (r.channels * r.sample_size))
         * (r.channels * r.sample_size))

FixedOrder == <<"Mixdown", "Normalize", "PadZero", "FFT", "Magnitude", "LowPass">>

Place(cls) == CHOOSE k \in 1..Len(FixedOrder) : FixedOrder[k] = cls

\* the flag of compare_files that belongs to one of the first five classes
Flag(args, cls) ==
  CASE cls = "Mixdown" -> args.mixdown
    [] cls = "Normalize" -> args.normalize
    [] cls = "PadZero" -> args.pad
    [] cls = "FFT" -> args.fft
    [] cls = "Magnitude" -> args.magnitude

Present(st, cls) == \E i \in 1..Len(st) : st[i].cls = cls

\* compare_files is past the building of transformer_steps
StagesBuilt ==
  \/ cli_pc \in {"scorer", "run", "running"}
  \/ /\ cli_pc \in {"done", "escaped"}
     /\ cli_args.scoring \in DOMAIN SUPPORTED_SCORING
     /\ files[1].status = "ok" /\ files[2].status = "ok"

\* Flow.run was called by compare_files
RunCalled == \E i \in 1..Len(events) : events[i] = Event("run", "Flow")

Count(log, call) == Cardinality({k \in 1..Len(log) : log[k] = call})

\* record has ended, by return or by an exception
RecordLeft == d_pc \in {"returned", "record_raised"}

\* C27, as claimed: every execution of record that creates a PyAudio
\* instance has, when control leaves record, stopped and closed the stream
\* (if opened) and terminated the PyAudio instance exactly once, whether it
\* returns or an error is raised while opening the stream or while reading.
C27_AsStated ==
  (RecordLeft /\ Count(rc_log, "PyAudio") = 1) =>
    /\ Count(rc_log, "terminate") = 1
    /\ Count(rc_log, "open") = 1 =>
         (Count(rc_log, "stop_stream") = 1 /\ Count(rc_log, "close") = 1)

\* the position of a device index in a listing, 0 if it is not there
Entries(listing, index) == {k \in 1..Len(listing) : listing[k].index = index}

\* C29, as claimed: list returns each backend device at most once, in
\* enumeration order; a device is in the result exactly when (include_input
\* and it has input channels) or (include_output and it has output
\* channels); the result is empty when both flags are false.
C29_AsStated ==
  d_pc = "listed" =>
    /\ \A k \in 1..Len(pa_table) :
         /\ Cardinality(Entries(d_res, k - 1)) <= 1
         /\ Entries(d_res, k - 1) # {} <=>
              \/ d_flags.include_input /\ pa_table[k].maxInputChannels > 0
              \/ d_flags.include_output /\ pa_table[k].maxOutputChannels > 0
    /\ \A i, j \in 1..Len(d_res) : i < j => d_res[i].index < d_res[j].index
    /\ (~d_flags.include_input /\ ~d_flags.include_output) => d_res = <<>>

\* the indexes of the input-capable devices of the backend
InputIndexes == {k - 1 : k \in {j \in 1..Len(pa_table) : pa_table[j].maxInputChannels > 0}}

\* the indexes of the devices that list() holds
ListedIndexes ==
  {k - 1 : k \in {j \in 1..Len(pa_table) :
                    pa_table[j].maxInputChannels > 0 \/ pa_table[j].maxOutputChannels > 0}}

PadZeroRan == \E i \in 1..idx : i <= Len(steps) /\ steps[i].cls = "PadZero"

\* C30: for 1-D inputs of any two lengths, once PadZero has run in a Flow
\* the two threaded signals have equal length, every later stage keeps the
\* lengths equal, and the scorer receives two signals of the same length
\* whenever PadZero occurs in the stage list.
C30_LengthInvariant ==
  /\ (pc \in {"loop", "returned", "raised"} /\ PadZeroRan) =>
       Len(signal_a.data) = Len(signal_b.data)
  /\ \A k \in 1..Len(calls) :
       (calls[k].op = "compare" /\ Present(steps, "PadZero")) =>
         Len(calls[k].in_a.data) = Len(calls[k].in_b.data)

\* inputs of one and two samples went through PadZero and LowPass(0.5) and
\* the scorer received one element of each
C30_Witness ==
  /\ pc = "returned"
  /\ Len(arg_a.data) = 1 /\ Len(arg_b.data) = 2
  /\ steps = <<Stage("PadZero", 0), Stage("LowPass", KeepDen \div 2)>>
  /\ calls[3].op = "compare"
  /\ Len(calls[3].in_a.data) = 1 /\ Len(calls[3].in_b.data) = 1

====
